---- MODULE Spec2Model ----
(***************************************************************************)
(* A model of ferrix: the SimpleExt4 FUSE engine (src/src/simple_ext4) and *)
(* the external-memory sorter (src/src/sort.rs, src/src/ext_arr.rs).       *)
(*                                                                         *)
(* The image is modelled as the code addresses it: the inode table is a    *)
(* map from the byte position of a slot to what is stored there, the data  *)
(* region a map from byte position to one byte.  Helpers are pure          *)
(* operators that take the engine state and return the new state together  *)
(* with the Rust Result, so that every early return of the source is an    *)
(* early return here.                                                      *)
(*                                                                         *)
(* Abstractions, stated once:                                              *)
(*  - timestamps (SystemTime::now) are left out of the Inode record; no    *)
(*    branch of the engine reads them;                                     *)
(*  - CRC32 is an ideal checksum: the stored checksum of a record is the   *)
(*    token <<"crc", content>> and it verifies exactly when the record     *)
(*    read back has that content; a checksum field holding anything else   *)
(*    never verifies;                                                      *)
(*  - a u32 assembled from bytes that are not all plain numbers is the     *)
(*    out-of-image block number BadPtr;                                    *)
(*  - the integers of the model checker end at 2^31 - 1.  Every u32 and    *)
(*    u64 the engine computes on the images modelled here is smaller, so   *)
(*    the sums are written without their modulus; a position of the mmap   *)
(*    computed from a group the image does not have is the end of the      *)
(*    mmap (every position from there on reads and writes nothing).        *)
(***************************************************************************)
EXTENDS Integers, Sequences, FiniteSets, TLC

\* ------------------------------------------------------------------------
\* Program constants (src/src/simple_ext4/mod.rs) and libc values.
ROOT_INODE == 1
INODE_SIZE == 128
SUPERBLOCK_SIZE == 1024
DIRECT_POINTERS == 12
S_IFDIR == 16384
S_IFREG == 32768
U16 == 65536
\* An assembled u32 that is no block of the image.
BadPtr == 2147483647
\* bincode (fixed-width, little endian) length of the serialised Inode:
\* mode 4, hard_links 2, user_id 4, group_id 4, block_count 4, size 8,
\* four SystemTime of 12, direct_blocks 48, indirect 4, double indirect 4,
\* checksum 4, block_size 4.
INODE_RECORD_LEN == 138

\* ------------------------------------------------------------------------
\* Bounds of the model.
\* The block size given to mkfs (an input of the program, a power of two).
BlockSize == 32
\* Host operations per run of the filesystem specifications.
MaxOps == 4
\* ... and in a run of namespace requests only.
MaxDirOps == 6

\* ------------------------------------------------------------------------
\* Arithmetic helpers.
Min(a, b) == IF a < b THEN a ELSE b

Max(a, b) == IF a < b THEN b ELSE a

RECURSIVE Repeat(_, _)
\* The sequence of n times x (vec![x; n]).
Repeat(x, n) == IF n = 0 THEN <<>> ELSE <<x>> \o Repeat(x, n - 1)

RECURSIVE BitAnd(_, _)
\* a & b on naturals.
BitAnd(a, b) ==
    IF a = 0 \/ b = 0 THEN 0
    ELSE (a % 2) * (b % 2) + 2 * BitAnd(a \div 2, b \div 2)

\* The result of a Rust function: Ok(v) or Err(e); a panic is the error
\* "PANIC", a loop that cannot end the error "HANG".
Ok(v) == [ok |-> TRUE, v |-> v]

Err(e) == [ok |-> FALSE, err |-> e]

\* ------------------------------------------------------------------------
\* Layout (src/src/simple_ext4/mod.rs).
inode_table_size(blk_size) == blk_size * 8 * INODE_SIZE

data_table_size(blk_size) == blk_size * blk_size * 8

block_group_size(blk_size) ==
    blk_size + blk_size + inode_table_size(blk_size) + data_table_size(blk_size)

\* ------------------------------------------------------------------------
\* Superblock (types.rs).  Timestamps and the magic are left out.
Superblock_new(block_size, groups, uid, gid) ==
    LET total_blocks == block_size * 8 * groups
    IN [block_size |-> block_size, groups |-> groups, uid |-> uid, gid |-> gid,
        free_blocks |-> total_blocks, free_inodes |-> total_blocks,
        block_count |-> total_blocks, inode_count |-> total_blocks,
        data_blocks_per_group |-> block_size * 8]

\* Superblock::serialize_into: the checksum is computed over the record
\* with a zero checksum, then the fields are written in the struct's order
\* (bincode, fixed width; at most 70 bytes, the checksum last).
Superblock_serialize_into(sb) ==
    LET words == <<sb.block_size, sb.block_count, sb.inode_count, sb.free_blocks,
                   sb.free_inodes, sb.groups, sb.data_blocks_per_group,
                   sb.uid, sb.gid>>
    IN [words |-> words, checksum |-> <<words>>]

\* Superblock::deserialize_from: the fields read back in the struct's order
\* and the checksum verified.
Superblock_deserialize_from(bytes) ==
    LET w == bytes.words
    IN IF bytes.checksum # <<w>>
       THEN Err("Superblock checksum verification failed")
       ELSE Ok([block_size |-> w[1], block_count |-> w[2], inode_count |-> w[3],
                free_blocks |-> w[4], free_inodes |-> w[5], groups |-> w[6],
                data_blocks_per_group |-> w[7], uid |-> w[8], gid |-> w[9]])

\* ------------------------------------------------------------------------
\* Group (types.rs).  A bitmap is the set of its 1-based set positions and
\* its length len; Option<usize> is 0 for None, the index otherwise.
next_free(bitmap, len) ==
    LET upto == Min(len, Cardinality(bitmap) + 1)
        free == {i \in 1..upto : i \notin bitmap}
    IN IF free = {} THEN 0 ELSE CHOOSE i \in free : \A j \in free : i <= j

Group_new(data_bitmap, inode_bitmap, len) ==
    [data_bitmap |-> data_bitmap, inode_bitmap |-> inode_bitmap, len |-> len,
     next_data_block |-> next_free(data_bitmap, len),
     next_inode |-> next_free(inode_bitmap, len)]

\* bitmap.get(i - 1).unwrap_or(false), for i >= 1.
has_inode(g, i) == i <= g.len /\ i \in g.inode_bitmap

has_data_block(g, i) == i <= g.len /\ i \in g.data_bitmap

free_inodes(g) == g.len - Cardinality(g.inode_bitmap)

free_data_blocks(g) == g.len - Cardinality(g.data_bitmap)

\* The group after allocate_inode; the index returned is g.next_inode.
Group_allocate_inode(g) ==
    IF g.next_inode = 0 THEN g
    ELSE LET bm == g.inode_bitmap \cup {g.next_inode}
         IN [g EXCEPT !.inode_bitmap = bm, !.next_inode = next_free(bm, g.len)]

Group_allocate_data_block(g) ==
    IF g.next_data_block = 0 THEN g
    ELSE LET bm == g.data_bitmap \cup {g.next_data_block}
         IN [g EXCEPT !.data_bitmap = bm, !.next_data_block = next_free(bm, g.len)]

\* BitVec::set panics when index - 1 is not below the length: the callers
\* test in_bitmap first.
in_bitmap(g, index) == index >= 1 /\ index <= g.len

\* Group::release_data_block as it would be if it cleared the bit and left
\* the cached next_data_block as it was.
Group_release_data_block_stale(g, index) ==
    [g EXCEPT !.data_bitmap = g.data_bitmap \ {index}]

Group_release_data_block(g, index) ==
    LET bm == g.data_bitmap \ {index}
    IN [g EXCEPT !.data_bitmap = bm, !.next_data_block = next_free(bm, g.len)]

\* Group::release_inode as it would be if it cleared the bit and left the
\* cached next_inode as it was.
Group_release_inode_stale(g, index) ==
    [g EXCEPT !.inode_bitmap = g.inode_bitmap \ {index}]

Group_release_inode(g, index) ==
    LET bm == g.inode_bitmap \ {index}
    IN [g EXCEPT !.inode_bitmap = bm, !.next_inode = next_free(bm, g.len)]

\* Group::serialize_into: for each group, at the start of the group, the
\* raw bytes of the data bitmap, then those of the inode bitmap (Lsb0: bit
\* j of byte k is position 8k + j).  The result maps each offset written
\* to the two byte strings.
Group_serialize_into(groups) ==
    LET blk_size == Head(groups).len \div 8
        start(i) == block_group_size(blk_size) * (i - 1) + SUPERBLOCK_SIZE
        as_raw_slice(bitmap, n) ==
            [k \in 1..n |->
                LET bit(j) == IF 8 * (k - 1) + j + 1 \in bitmap THEN 2 ^ j ELSE 0
                IN bit(0) + bit(1) + bit(2) + bit(3) + bit(4) + bit(5) + bit(6) + bit(7)]
    IN [offset \in {start(i) : i \in DOMAIN groups} |->
           LET g == groups[(offset - SUPERBLOCK_SIZE) \div block_group_size(blk_size) + 1]
           IN <<as_raw_slice(g.data_bitmap, g.len \div 8),
                as_raw_slice(g.inode_bitmap, g.len \div 8)>>]

\* Group::deserialize_from: for each of the count groups, blk_size bytes
\* read at the start of the group as the data bitmap and the next blk_size
\* as the inode bitmap, then Group::new.  Bytes never written are zero.
Group_deserialize_from(bitmaps, blk_size, count) ==
    LET from_slice(buf) ==
            {i \in 1..(8 * blk_size) :
                (buf[(i - 1) \div 8 + 1] \div 2 ^ ((i - 1) % 8)) % 2 = 1}
        zero == [k \in 1..blk_size |-> 0]
        read(offset) == IF offset \in DOMAIN bitmaps THEN bitmaps[offset]
                        ELSE <<zero, zero>>
        group(buf) == Group_new(from_slice(buf[1]), from_slice(buf[2]), 8 * blk_size)
        groups[i \in 0..count] ==
            IF i = 0 THEN <<>>
            ELSE Append(groups[i - 1],
                        group(read(block_group_size(blk_size) * (i - 1)
                                   + SUPERBLOCK_SIZE)))
    IN groups[count]

\* ------------------------------------------------------------------------
\* Inode (types.rs), without its timestamps.
ZeroBlocks == Repeat(0, DIRECT_POINTERS)

Inode_new(block_size) ==
    [mode |-> 0, hard_links |-> 1, user_id |-> 0, group_id |-> 0,
     block_count |-> 0, size |-> 0, direct_blocks |-> ZeroBlocks,
     indirect_block |-> 0, double_indirect_block |-> 0, checksum |-> <<>>,
     block_size |-> block_size]

is_dir(inode) == BitAnd(inode.mode, S_IFDIR) # 0

\* The nonzero direct blocks, in slot order.
direct_blocks(inode) == SelectSeq(inode.direct_blocks, LAMBDA x : x # 0)

\* Inode::checksum: the CRC of the record with the checksum field zeroed.
\* The field holds <<content>> (one element) or <<>> for a numeric value
\* that is no checksum of any record.
inode_crc(inode) == <<[inode EXCEPT !.checksum = <<>>]>>

adjust_size(inode, len) ==
    LET size == Max(inode.size, len)
    IN [inode EXCEPT !.size = size, !.block_count = size \div 512 + 1]

increment_size(inode, len) ==
    LET size == inode.size + len
    IN [inode EXCEPT !.size = size, !.block_count = size \div 512 + 1]

\* What an inode-table slot holds.  The serialised record is
\* INODE_RECORD_LEN bytes long and a slot INODE_SIZE: bytes 0..9 of a slot
\* (head: mode, hard_links, user_id of its own inode) are also bytes
\* 128..137 of the record before it (the high half of double_indirect_block,
\* checksum, block_size).  head.w0 is bytes 0..1, head.w1 bytes 2..5 (a
\* number, or a checksum in crc), head.w2 bytes 6..9.
ZeroSlot ==
    [w0 |-> 0, w1 |-> 0, crc |-> <<>>, w2 |-> 0,
     group_id |-> 0, block_count |-> 0, size |-> 0, direct_blocks |-> ZeroBlocks,
     indirect_block |-> 0, dlo |-> 0]


\* ------------------------------------------------------------------------
\* The engine state s (SimpleExt4FS, fs.rs): s.sb the superblock, s.groups
\* the sequence of groups (group_index + 1 is the position), and the mmap
\* as s.itab (inode-table slot by byte position), s.dmem (nonzero plain
\* bytes of the data region by byte position) and s.dcrc (the positions
\* that hold byte k of the checksum of a directory, as <<k, entries>>).
mmap_len(s) == SUPERBLOCK_SIZE + block_group_size(s.sb.block_size) * s.sb.groups

\* (group_block_index, bitmap_index), for index >= 1.
inode_offsets(s, index) ==
    LET inodes_per_group == s.sb.data_blocks_per_group
    IN <<(index - 1) \div inodes_per_group, BitAnd(index - 1, inodes_per_group - 1)>>

inode_seek_position(s, index) ==
    LET block_size == s.sb.block_size
        position(o) ==
            IF o[1] >= s.sb.groups THEN mmap_len(s)
            ELSE o[1] * block_group_size(block_size) + 2 * block_size
                 + o[2] * INODE_SIZE + SUPERBLOCK_SIZE
    IN position(inode_offsets(s, index))

data_block_offsets(s, index) ==
    LET data_blocks_per_group == s.sb.data_blocks_per_group
    IN <<(index - 1) \div data_blocks_per_group,
         BitAnd(index - 1, data_blocks_per_group - 1)>>

data_block_seek_position(s, index) ==
    LET block_size == s.sb.block_size
        position(o) ==
            IF o[1] >= s.sb.groups THEN mmap_len(s)
            ELSE o[1] * block_group_size(block_size) + 2 * block_size
                 + s.sb.data_blocks_per_group * INODE_SIZE + SUPERBLOCK_SIZE
                 + block_size * o[2]
    IN position(data_block_offsets(s, index))

Slot(s, pos) == IF pos \in DOMAIN s.itab THEN s.itab[pos] ELSE ZeroSlot

\* The bytes of the mmap from pos on that a Cursor can still write or read.
room(s, pos) == IF pos < mmap_len(s) THEN mmap_len(s) - pos ELSE 0

\* save_inode: inode.checksum(), then the record is serialised at the
\* slot's position.  Its last 10 bytes land in the head of the next slot.
\* (The last slot of a group, whose tail lands in the data region, is not
\* reached within the bounds.)
save_inode(s, inode, index) ==
    LET serialize_into(offset) ==
            LET next == offset + INODE_SIZE
                own == [w0 |-> inode.mode % U16,
                        w1 |-> inode.mode \div U16 + U16 * inode.hard_links,
                        crc |-> <<>>,
                        w2 |-> inode.user_id,
                        group_id |-> inode.group_id,
                        block_count |-> inode.block_count,
                        size |-> inode.size, direct_blocks |-> inode.direct_blocks,
                        indirect_block |-> inode.indirect_block,
                        dlo |-> inode.double_indirect_block % U16]
                tail == [Slot(s, next) EXCEPT
                            !.w0 = inode.double_indirect_block \div U16,
                            !.w1 = 0,
                            !.crc = inode_crc(inode),
                            !.w2 = inode.block_size]
            IN IF room(s, offset) < INODE_RECORD_LEN
               THEN [s |-> s, r |-> Err("EIO")]
               ELSE [s |-> [s EXCEPT !.itab =
                               [p \in DOMAIN s.itab \cup {offset, next} |->
                                   IF p = offset THEN own
                                   ELSE IF p = next THEN tail ELSE s.itab[p]]],
                     r |-> Ok(TRUE)]
    IN serialize_into(inode_seek_position(s, index))

\* Inode::deserialize_from at a slot position: the record read back, and
\* whether its checksum verifies.  (A double_indirect_block of 2^31 or more
\* is read as BadPtr.)
stored_inode(s, offset) ==
    LET record(own, next) ==
            [mode |-> own.w0 + U16 * (own.w1 % U16), hard_links |-> own.w1 \div U16,
             user_id |-> own.w2, group_id |-> own.group_id,
             block_count |-> own.block_count, size |-> own.size,
             direct_blocks |-> own.direct_blocks,
             indirect_block |-> own.indirect_block,
             double_indirect_block |-> IF next.w0 >= 32768 THEN BadPtr
                                       ELSE own.dlo + U16 * next.w0,
             checksum |-> next.crc, block_size |-> next.w2]
    IN record(Slot(s, offset), Slot(s, offset + INODE_SIZE))

verify_checksum(s, offset) ==
    /\ Slot(s, offset).crc = <<>>
    /\ Slot(s, offset + INODE_SIZE).crc = inode_crc(stored_inode(s, offset))

find_inode(s, index) ==
    LET deserialize_from(offset) ==
            IF room(s, offset) < INODE_RECORD_LEN \/ ~verify_checksum(s, offset)
            THEN Err("EIO")
            ELSE Ok(stored_inode(s, offset))
        in_group(group_index) ==
            IF index = 0 \/ group_index >= Len(s.groups)
            THEN Err("PANIC")
            ELSE IF ~has_inode(s.groups[group_index + 1], index)
            THEN Err("ENOENT")
            ELSE deserialize_from(inode_seek_position(s, index))
    IN in_group(IF index = 0 THEN 0 ELSE inode_offsets(s, index)[1])


\* ------------------------------------------------------------------------
\* Bytes of the data region.
\* File names the host uses (byte strings), and the value a read returns
\* for a byte of a stored checksum (no plain byte has it).
Names == {<<97>>, <<98>>}

CRC_BYTE == 256

Byte(s, a) ==
    IF a \in DOMAIN s.dcrc THEN CRC_BYTE
    ELSE IF a \in DOMAIN s.dmem THEN s.dmem[a] ELSE 0

\* Cursor::write of plain bytes at pos: as many as fit before the end of
\* the mmap.  The new state and the count written.
write_bytes(s, pos, data) ==
    LET put(n) ==
            LET range == pos..(pos + n - 1)
                keep == {a \in range : data[a - pos + 1] # 0}
            IN [s |-> [s EXCEPT
                         !.dmem = [a \in (DOMAIN s.dmem \ range) \cup keep |->
                                     IF a \in range THEN data[a - pos + 1]
                                     ELSE s.dmem[a]],
                         !.dcrc = [a \in DOMAIN s.dcrc \ range |-> s.dcrc[a]]],
                n |-> n]
    IN put(Min(Len(data), room(s, pos)))

\* The four bytes of the checksum of a directory with these entries.
write_crc(s, pos, entries) ==
    LET put(n) ==
            LET range == pos..(pos + n - 1)
            IN [s |-> [s EXCEPT
                         !.dmem = [a \in DOMAIN s.dmem \ range |-> s.dmem[a]],
                         !.dcrc = [a \in DOMAIN s.dcrc \cup range |->
                                     IF a \in range THEN <<a - pos, entries>>
                                     ELSE s.dcrc[a]]],
                n |-> n]
    IN put(Min(4, room(s, pos)))

\* The little-endian number in the k bytes at pos; -1 when they are not all
\* plain bytes inside the mmap, BadPtr when it is 2^31 or more.
RECURSIVE NumAt(_, _, _)
NumAt(s, pos, k) ==
    IF k = 0 THEN 0
    ELSE IF room(s, pos) = 0 \/ pos \in DOMAIN s.dcrc THEN -1
    ELSE LET rest == NumAt(s, pos + 1, k - 1)
         IN IF rest < 0 THEN -1
            ELSE IF rest >= 8388608 THEN BadPtr
            ELSE Byte(s, pos) + 256 * rest

RECURSIVE LE(_, _)
\* x as k little-endian bytes.
LE(x, k) == IF k = 0 THEN <<>> ELSE <<x % 256>> \o LE(x \div 256, k - 1)

\* fs.rs write_data / read_data / read_u32.
write_data(s, data, offset, block_index) ==
    write_bytes(s, data_block_seek_position(s, block_index) + offset, data)

\* read_exact of len bytes: the bytes, or an error at the end of the mmap.
read_data(s, len, offset, block_index) ==
    LET read_exact(pos) ==
            IF room(s, pos) < len THEN Err("EIO")
            ELSE Ok([i \in 1..len |-> Byte(s, pos + i - 1)])
    IN read_exact(data_block_seek_position(s, block_index) + offset)

read_u32(s, offset, block_index) ==
    LET number(n) == IF n < 0 THEN Ok(BadPtr) ELSE Ok(n)
        read_exact(pos) ==
            IF room(s, pos) < 4 THEN Err("EIO") ELSE number(NumAt(s, pos, 4))
    IN read_exact(data_block_seek_position(s, block_index) + offset * 4)

\* ------------------------------------------------------------------------
\* Directory (types.rs): entries is the BTreeMap, a function from names to
\* inode indexes.  bincode writes the number of entries (u64), then per
\* entry in key order the OsString (variant 0 as u32, length as u64, the
\* bytes) and the index (u32), then the checksum (u32).
RECURSIVE NameLess(_, _)
NameLess(a, b) ==
    IF b = <<>> THEN FALSE
    ELSE IF a = <<>> THEN TRUE
    ELSE IF Head(a) # Head(b) THEN Head(a) < Head(b)
    ELSE NameLess(Tail(a), Tail(b))

RECURSIVE SortedNames(_)
SortedNames(S) ==
    IF S = {} THEN <<>>
    ELSE LET m == CHOOSE x \in S : \A y \in S \ {x} : NameLess(x, y)
         IN <<m>> \o SortedNames(S \ {m})

RECURSIVE EntryBytes(_, _)
EntryBytes(entries, names) ==
    IF names = <<>> THEN <<>>
    ELSE LE(0, 4) \o LE(Len(Head(names)), 8) \o Head(names)
         \o LE(entries[Head(names)], 4) \o EntryBytes(entries, Tail(names))

\* The serialised directory without its trailing checksum.
dir_bytes(entries) ==
    LE(Cardinality(DOMAIN entries), 8) \o EntryBytes(entries, SortedNames(DOMAIN entries))

NoEntries == [n \in {} |-> 0]

\* Directory::serialize_into at pos: Err when the mmap ends first.
dir_serialize_into(s, pos, entries) ==
    LET checksummed(w2) ==
            IF w2.n < 4 THEN [s |-> w2.s, r |-> Err("EIO")]
            ELSE [s |-> w2.s, r |-> Ok(TRUE)]
        plain(b, w1) ==
            IF w1.n < Len(b) THEN [s |-> w1.s, r |-> Err("EIO")]
            ELSE checksummed(write_crc(w1.s, pos + Len(b), entries))
        serialized(b) == plain(b, write_bytes(s, pos, b))
    IN serialized(dir_bytes(entries))

\* The bytes at pos parsed as n more entries after `acc`; `last` is the
\* previous key.  <<TRUE, entries, end position>> or <<FALSE>>.  Only a byte
\* string that some directory over Names serialises to is accepted: any
\* other fails to decode or fails its checksum.
RECURSIVE ParseEntries(_, _, _, _, _)
ParseEntries(s, pos, n, acc, last) ==
    LET parsed(len, name, index) ==
            IF name \notin Names \/ index < 0 THEN <<FALSE>>
            ELSE IF last # <<>> /\ ~NameLess(last[1], name) THEN <<FALSE>>
            ELSE ParseEntries(s, pos + 16 + len, n - 1,
                     [x \in DOMAIN acc \cup {name} |->
                         IF x = name THEN index ELSE acc[x]],
                     <<name>>)
        header(variant, len) ==
            IF variant # 0 \/ ~(len >= 0 /\ \E nm \in Names : Len(nm) = len)
            THEN <<FALSE>>
            ELSE parsed(len, [i \in 1..len |-> Byte(s, pos + 12 + i - 1)],
                        NumAt(s, pos + 12 + len, 4))
    IN IF n = 0 THEN <<TRUE, acc, pos>>
       ELSE header(NumAt(s, pos, 4), NumAt(s, pos + 4, 8))

\* Directory::deserialize_from at pos, checksum verified.
dir_deserialize_from(s, pos) ==
    LET verified(p) ==
            IF ~p[1] THEN Err("EIO")
            ELSE IF \A k \in 0..3 :
                       /\ p[3] + k \in DOMAIN s.dcrc
                       /\ s.dcrc[p[3] + k] = <<k, p[2]>>
            THEN Ok(p[2])
            ELSE Err("EIO")
        counted(n) ==
            IF n < 0 \/ n > Cardinality(Names) THEN Err("EIO")
            ELSE verified(ParseEntries(s, pos + 8, n, NoEntries, <<>>))
    IN counted(NumAt(s, pos, 8))

\* Directory::entry.
entry(entries, name) ==
    IF name \in DOMAIN entries THEN Ok(entries[name]) ELSE Err("ENOENT")


\* ------------------------------------------------------------------------
\* Engine helpers (fs.rs).  Each returns the new state s with its result r.
\* map_err(|_| e): a panic is no Err and passes through.
MapErr(r, e) == IF r.ok \/ r.err = "PANIC" THEN r ELSE Err(e)

\* The position (1-based) of the first group among those in has (the
\* groups with something free), 0 for none.
first_group(has) ==
    IF has = {} THEN 0 ELSE CHOOSE i \in has : \A j \in has : i <= j

\* allocate_inode as it would be if it counted the inode before looking
\* for a group with a free one.
allocate_inode_counted(s) ==
    LET from(gi) ==
            LET g == s.groups[gi]
                s0 == [s EXCEPT !.sb.free_inodes = @ - 1]
                s1 == [s0 EXCEPT !.groups[gi] = Group_allocate_inode(g)]
            IN IF gi = 0 THEN [s |-> s0, v |-> 0]
               ELSE IF g.next_inode = 0 THEN [s |-> s1, v |-> 0]
               ELSE [s |-> s1,
                     v |-> g.next_inode + (gi - 1) * s.sb.data_blocks_per_group]
    IN from(first_group({i \in 1..Len(s.groups) : free_inodes(s.groups[i]) > 0}))

\* allocate_inode: v is the index, 0 for None.
allocate_inode(s) ==
    LET from(gi) ==
            LET g == s.groups[gi]
                s1 == [s EXCEPT !.sb.free_inodes = @ - 1,
                                !.groups[gi] = Group_allocate_inode(g)]
            IN IF gi = 0 THEN [s |-> s, v |-> 0]
               ELSE IF g.next_inode = 0 THEN [s |-> s1, v |-> 0]
               ELSE [s |-> s1,
                     v |-> g.next_inode + (gi - 1) * s.sb.data_blocks_per_group]
    IN from(first_group({i \in 1..Len(s.groups) : free_inodes(s.groups[i]) > 0}))

allocate_data_block(s) ==
    LET from(gi) ==
            LET g == s.groups[gi]
                s1 == [s EXCEPT !.sb.free_blocks = @ - 1,
                                !.groups[gi] = Group_allocate_data_block(g)]
            IN IF gi = 0 THEN [s |-> s, v |-> 0]
               ELSE IF g.next_data_block = 0 THEN [s |-> s1, v |-> 0]
               ELSE [s |-> s1,
                     v |-> g.next_data_block + (gi - 1) * s.sb.data_blocks_per_group]
    IN from(first_group({i \in 1..Len(s.groups) : free_data_blocks(s.groups[i]) > 0}))

\* release_data_blocks: the group of each block is unwrapped, then the
\* counter grows by the number of blocks.
RECURSIVE release_each(_, _)
release_each(s, blocks) ==
    LET release(o) ==
            IF o[1] >= Len(s.groups) THEN [s |-> s, r |-> Err("PANIC")]
            ELSE release_each(
                   [s EXCEPT !.groups[o[1] + 1] =
                                 Group_release_data_block(@, 1 + o[2])],
                   Tail(blocks))
    IN IF blocks = <<>> THEN [s |-> s, r |-> Ok(TRUE)]
       ELSE release(data_block_offsets(s, Head(blocks)))

release_data_blocks(s, blocks) ==
    LET counted(e) ==
            IF ~e.r.ok THEN e
            ELSE [s |-> [e.s EXCEPT !.sb.free_blocks = @ + Len(blocks)],
                  r |-> Ok(TRUE)]
    IN counted(release_each(s, blocks))

\* release_inode: the group's bitmap is indexed with the global index.
\* release_inode as it would be if it left the superblock's count alone.
release_inode_uncounted(s, index) ==
    LET release(gi) ==
            IF gi > Len(s.groups) \/ ~in_bitmap(s.groups[gi], index)
            THEN [s |-> s, r |-> Err("PANIC")]
            ELSE [s |-> [s EXCEPT !.groups[gi] = Group_release_inode(@, index)],
                  r |-> Ok(TRUE)]
    IN release(inode_offsets(s, index)[1] + 1)

release_inode(s, index) ==
    LET release(gi) ==
            IF gi > Len(s.groups) \/ ~in_bitmap(s.groups[gi], index)
            THEN [s |-> s, r |-> Err("PANIC")]
            ELSE [s |-> [s EXCEPT !.groups[gi] = Group_release_inode(@, index),
                                  !.sb.free_inodes = @ + 1],
                  r |-> Ok(TRUE)]
    IN release(inode_offsets(s, index)[1] + 1)

\* read_indirect_block: the nonzero pointers of a block, in slot order.
RECURSIVE read_pointers(_, _, _, _)
read_pointers(s, block, i, n) ==
    LET pointer(b, rest) ==
            IF ~b.ok THEN b
            ELSE IF ~rest.ok THEN rest
            ELSE Ok((IF b.v # 0 THEN <<b.v>> ELSE <<>>) \o rest.v)
    IN IF i = n THEN Ok(<<>>)
       ELSE pointer(read_u32(s, i, block), read_pointers(s, block, i + 1, n))

read_indirect_block(s, block) == read_pointers(s, block, 0, s.sb.block_size \div 4)

release_indirect_block(s, block) ==
    LET release(blocks) ==
            IF ~blocks.ok THEN [s |-> s, r |-> blocks]
            ELSE release_data_blocks(s, blocks.v)
    IN release(read_indirect_block(s, block))

\* The leaves of the inner indirect blocks, or the first read error.
RECURSIVE read_leaves(_, _)
read_leaves(s, indirect_blocks) ==
    LET leaves(b, rest) ==
            IF ~b.ok THEN b
            ELSE IF ~rest.ok THEN rest
            ELSE Ok(b.v \o rest.v)
    IN IF indirect_blocks = <<>> THEN Ok(<<>>)
       ELSE leaves(read_indirect_block(s, Head(indirect_blocks)),
                   read_leaves(s, Tail(indirect_blocks)))

release_double_indirect_block(s, block) ==
    LET released(blocks, r1) ==
            IF ~r1.r.ok THEN r1
            ELSE release_data_blocks(r1.s, blocks.v)
        leaves(indirect_blocks, blocks) ==
            IF ~blocks.ok THEN [s |-> s, r |-> blocks]
            ELSE released(blocks, release_data_blocks(s, indirect_blocks.v))
        inner(indirect_blocks) ==
            IF ~indirect_blocks.ok THEN [s |-> s, r |-> indirect_blocks]
            ELSE leaves(indirect_blocks, read_leaves(s, indirect_blocks.v))
    IN inner(read_indirect_block(s, block))

\* find_dir_from_inode.  (An inode with the directory bit and no block 0
\* does not arise: the host creates regular files only.)
find_dir_from_inode(s, index) ==
    LET directory(block, group_index) ==
            IF block = 0 \/ ~has_data_block(s.groups[group_index + 1], block)
            THEN Err("ENOENT")
            ELSE MapErr(dir_deserialize_from(s, data_block_seek_position(s, block)),
                        "EIO")
        found(inode) ==
            IF ~inode.ok THEN inode
            ELSE IF ~is_dir(inode.v) THEN Err("ENOTDIR")
            ELSE directory(inode.v.direct_blocks[1],
                           data_block_offsets(s, index)[1])
    IN found(find_inode(s, index))

\* save_dir: the inode `index` is read and saved again, then the directory
\* is serialised at data_block_seek_position(index).
save_dir(s, entries, index) ==
    LET saved(s1) ==
            IF ~s1.r.ok THEN s1
            ELSE dir_serialize_into(s1.s, data_block_seek_position(s1.s, index),
                                    entries)
        found(inode) ==
            IF ~inode.ok THEN [s |-> s, r |-> inode]
            ELSE saved(save_inode(s, inode.v, index))
    IN found(find_inode(s, index))


\* ------------------------------------------------------------------------
\* Block mapping (fs.rs find_indirect, save_indirect, find_data_block).
RECURSIVE find_indirect(_, _, _, _)
find_indirect(s, pointer, index, pointers_per_block) ==
    LET next(block) ==
            IF ~block.ok THEN block
            ELSE IF block.v = 0 \/ index < pointers_per_block THEN block
            ELSE find_indirect(s, block.v, BitAnd(index, pointers_per_block - 1),
                               pointers_per_block)
    IN IF pointer = 0 THEN Ok(0)
       ELSE next(read_u32(s,
                          IF index < pointers_per_block
                          THEN BitAnd(index, pointers_per_block - 1)
                          ELSE index \div pointers_per_block - 1,
                          pointer))

RECURSIVE save_indirect(_, _, _, _, _)
save_indirect(s, pointer, block, index, pointers_per_block) ==
    LET offset == BitAnd(index, pointers_per_block - 1)
        inner(new_pointer) ==
            IF ~new_pointer.ok THEN [s |-> s, r |-> new_pointer]
            ELSE save_indirect(s, new_pointer.v, block, offset, pointers_per_block)
    IN IF pointer = 0 THEN [s |-> s, r |-> Err("PANIC")]
       ELSE IF index < pointers_per_block
       THEN [s |-> write_data(s, LE(block, 4), offset * 4, pointer).s, r |-> Ok(TRUE)]
       ELSE inner(read_u32(s, index \div pointers_per_block - 1, pointer))

Zeros(n) == Repeat(0, n)

\* A direct-range tail that links every new block into direct_blocks[0].
fdb_direct_slot_zero(s, inode, index, blk_size) ==
    LET allocated_block(a) ==
            IF a.v = 0 THEN [s |-> a.s, inode |-> inode, r |-> Err("ENOSPC")]
            ELSE [s |-> a.s,
                  inode |-> [inode EXCEPT !.direct_blocks[1] = a.v],
                  r |-> Ok(<<a.v, blk_size>>)]
    IN allocated_block(allocate_data_block(s))

\* The write-mode tail of find_data_block for a hole in the direct range.
fdb_direct(s, inode, index, blk_size) ==
    LET allocated_block(a) ==
            IF a.v = 0 THEN [s |-> a.s, inode |-> inode, r |-> Err("ENOSPC")]
            ELSE [s |-> a.s,
                  inode |-> [inode EXCEPT !.direct_blocks[index + 1] = a.v],
                  r |-> Ok(<<a.v, blk_size>>)]
    IN allocated_block(allocate_data_block(s))

\* A single-indirect tail that links the new indirect block as it is,
\* without writing zeros over it.
fdb_indirect_unzeroed(s, inode, index, blk_size, pointers_per_block) ==
    LET fresh == inode.indirect_block = 0
        saved(b, inode1, sv) ==
            IF ~sv.r.ok THEN [s |-> sv.s, inode |-> inode1, r |-> MapErr(sv.r, "EIO")]
            ELSE [s |-> sv.s, inode |-> inode1, r |-> Ok(<<b.v, blk_size>>)]
        data_block(b, inode1) ==
            IF b.v = 0 THEN [s |-> b.s, inode |-> inode1, r |-> Err("ENOSPC")]
            ELSE saved(b, inode1,
                       save_indirect(b.s, inode1.indirect_block, b.v,
                                     index - DIRECT_POINTERS, pointers_per_block))
        first(a) ==
            IF a.v = 0 THEN [s |-> a.s, inode |-> inode, r |-> Err("ENOSPC")]
            ELSE IF fresh
            THEN data_block(allocate_data_block(a.s),
                            [inode EXCEPT !.indirect_block = a.v])
            ELSE data_block(a, inode)
    IN first(allocate_data_block(s))

\* ... in the single-indirect range.
fdb_indirect(s, inode, index, blk_size, pointers_per_block) ==
    LET fresh == inode.indirect_block = 0
        saved(b, inode1, sv) ==
            IF ~sv.r.ok THEN [s |-> sv.s, inode |-> inode1, r |-> MapErr(sv.r, "EIO")]
            ELSE [s |-> sv.s, inode |-> inode1, r |-> Ok(<<b.v, blk_size>>)]
        data_block(b, inode1) ==
            IF b.v = 0 THEN [s |-> b.s, inode |-> inode1, r |-> Err("ENOSPC")]
            ELSE saved(b, inode1,
                       save_indirect(b.s, inode1.indirect_block, b.v,
                                     index - DIRECT_POINTERS, pointers_per_block))
        first(a) ==
            IF a.v = 0 THEN [s |-> a.s, inode |-> inode, r |-> Err("ENOSPC")]
            ELSE IF fresh
            THEN data_block(allocate_data_block(
                                write_data(a.s, Zeros(blk_size), 0, a.v).s),
                            [inode EXCEPT !.indirect_block = a.v])
            ELSE data_block(a, inode)
    IN first(allocate_data_block(s))

\* ... in the double-indirect range.
fdb_double(s, inode, index, blk_size, pointers_per_block) ==
    LET fresh == inode.double_indirect_block = 0
        indirect_offset == (index - DIRECT_POINTERS) \div pointers_per_block - 1
        saved(c, inode1, sv) ==
            IF ~sv.r.ok THEN [s |-> sv.s, inode |-> inode1, r |-> MapErr(sv.r, "EIO")]
            ELSE [s |-> sv.s, inode |-> inode1, r |-> Ok(<<c.v, blk_size>>)]
        data_block(c, inode1, indirect_block) ==
            IF c.v = 0 THEN [s |-> c.s, inode |-> inode1, r |-> Err("ENOSPC")]
            ELSE saved(c, inode1,
                       save_indirect(c.s, indirect_block, c.v,
                                     BitAnd(index - DIRECT_POINTERS,
                                            pointers_per_block - 1),
                                     pointers_per_block))
        \* the arm for 0: b.v becomes the inner indirect block
        inner(b, inode1, sv0) ==
            IF ~sv0.r.ok
            THEN [s |-> sv0.s, inode |-> inode1, r |-> MapErr(sv0.r, "EIO")]
            ELSE data_block(allocate_data_block(
                                write_data(sv0.s, Zeros(blk_size), 0, b.v).s),
                            inode1, b.v)
        looked_up(b, inode1, found) ==
            IF ~found.ok THEN [s |-> b.s, inode |-> inode1, r |-> MapErr(found, "EIO")]
            ELSE IF found.v = 0
            THEN inner(b, inode1,
                       save_indirect(b.s, inode1.double_indirect_block, b.v,
                                     indirect_offset, pointers_per_block))
            ELSE data_block(b, inode1, found.v)
        second(b, inode1) ==
            IF b.v = 0 THEN [s |-> b.s, inode |-> inode1, r |-> Err("ENOSPC")]
            ELSE looked_up(b, inode1,
                           find_indirect(b.s, inode1.double_indirect_block,
                                         indirect_offset, pointers_per_block))
        first(a) ==
            IF a.v = 0 THEN [s |-> a.s, inode |-> inode, r |-> Err("ENOSPC")]
            ELSE IF fresh
            THEN second(allocate_data_block(
                            write_data(a.s, Zeros(blk_size), 0, a.v).s),
                        [inode EXCEPT !.double_indirect_block = a.v])
            ELSE second(a, inode)
    IN first(allocate_data_block(s))

\* find_data_block: the state, the in-memory inode and
\* Ok(<<block, space_left>>) or the errno.
find_data_block(s, inode, offset, read) ==
    LET blk_size == s.sb.block_size
        index == offset \div blk_size
        pointers_per_block == blk_size \div 4
        range == IF index < DIRECT_POINTERS THEN "direct"
                 ELSE IF index < pointers_per_block + DIRECT_POINTERS THEN "indirect"
                 ELSE IF index < pointers_per_block * pointers_per_block
                                 + pointers_per_block + DIRECT_POINTERS
                 THEN "double"
                 ELSE "beyond"
        mapped(block) ==
            IF range = "beyond" THEN [s |-> s, inode |-> inode, r |-> Err("ENOSPC")]
            ELSE IF ~block.ok THEN [s |-> s, inode |-> inode, r |-> block]
            ELSE IF block.v # 0
            THEN [s |-> s, inode |-> inode,
                  r |-> Ok(<<block.v, (index + 1) * blk_size - offset>>)]
            ELSE IF read THEN [s |-> s, inode |-> inode, r |-> Err("EINVAL")]
            ELSE IF range = "direct" THEN fdb_direct(s, inode, index, blk_size)
            ELSE IF range = "indirect"
            THEN fdb_indirect(s, inode, index, blk_size, pointers_per_block)
            ELSE fdb_double(s, inode, index, blk_size, pointers_per_block)
    IN mapped(IF range = "direct" THEN Ok(inode.direct_blocks[index + 1])
              ELSE IF range = "beyond" THEN Ok(0)
              ELSE MapErr(find_indirect(s,
                              IF range = "indirect" THEN inode.indirect_block
                              ELSE inode.double_indirect_block,
                              index - DIRECT_POINTERS, pointers_per_block),
                          "EIO"))


\* ------------------------------------------------------------------------
\* Mount (SimpleExt4FS::new after mkfs::make) and the FUSE handlers.  A
\* handler returns the new state s and its reply r: Ok(payload) or
\* Err(errno); Err("PANIC") and Err("HANG") are a handler that panicked or
\* that loops without end.
to_attr(inode, index) ==
    [ino |-> index, size |-> inode.size, blocks |-> inode.block_count,
     kind |-> IF is_dir(inode) THEN "Directory" ELSE "RegularFile",
     perm |-> inode.mode % U16, nlink |-> inode.hard_links,
     uid |-> inode.user_id, gid |-> inode.group_id, blksize |-> inode.block_size]

\* The image mkfs::make leaves: the superblock serialised at the start of
\* the file (hdr.sb), the file set to its length len, all bitmaps
\* (hdr.bitmaps) and tables zero.  sb and
\* groups are the mounted file system's copies in memory.
fresh_image(blk_size, groups) ==
    [sb |-> Superblock_new(blk_size, groups, 0, 0),
     groups |-> Repeat(Group_new({}, {}, blk_size * 8), groups),
     itab |-> [p \in {} |-> ZeroSlot],
     dmem |-> [a \in {} |-> 0],
     dcrc |-> [a \in {} |-> <<>>],
     len |-> SUPERBLOCK_SIZE + block_group_size(blk_size) * groups,
     hdr |-> [sb |-> Superblock_serialize_into(Superblock_new(blk_size, groups, 0, 0)),
              bitmaps |-> [o \in {} |-> <<>>]]]

create_root(s) ==
    LET inode == [Inode_new(s.sb.block_size) EXCEPT !.mode = S_IFDIR + 511,
                                                     !.hard_links = 2]
        saved(i, s1) ==
            IF ~s1.r.ok THEN s1
            ELSE save_dir(s1.s, NoEntries, i.v)
        data_block(i, b) ==
            IF b.v = 0 THEN [s |-> b.s, r |-> Err("No space left for data")]
            ELSE saved(i, save_inode(b.s, [inode EXCEPT !.direct_blocks[1] = b.v],
                                     i.v))
        root(i) ==
            IF i.v = 0 THEN [s |-> i.s, r |-> Err("No space left for inodes")]
            ELSE IF i.v # ROOT_INODE THEN [s |-> i.s, r |-> Err("PANIC")]
            ELSE data_block(i, allocate_data_block(i.s))
    IN IF has_inode(s.groups[1], ROOT_INODE) THEN [s |-> s, r |-> Ok(TRUE)]
       ELSE root(allocate_inode(s))

\* lookup as it would be if it kept a count of lookups in the record of the
\* inode it found (here in hard_links) and saved it.
lookup_counting(s, parent, name) ==
    LET attr(index, inode) ==
            IF ~inode.ok THEN [s |-> s, r |-> inode]
            ELSE [s |-> save_inode(s, [inode.v EXCEPT !.hard_links = @ + 1], index.v).s,
                  r |-> Ok(to_attr(inode.v, index.v))]
        named(index) ==
            IF ~index.ok THEN [s |-> s, r |-> index]
            ELSE attr(index, find_inode(s, index.v))
        found(dir) ==
            IF ~dir.ok THEN [s |-> s, r |-> dir]
            ELSE named(entry(dir.v, name))
    IN found(find_dir_from_inode(s, parent))

lookup(s, parent, name) ==
    LET attr(index, inode) ==
            IF ~inode.ok THEN [s |-> s, r |-> inode]
            ELSE [s |-> s, r |-> Ok(to_attr(inode.v, index.v))]
        named(index) ==
            IF ~index.ok THEN [s |-> s, r |-> index]
            ELSE attr(index, find_inode(s, index.v))
        found(dir) ==
            IF ~dir.ok THEN [s |-> s, r |-> dir]
            ELSE named(entry(dir.v, name))
    IN found(find_dir_from_inode(s, parent))

getattr(s, ino) ==
    LET attr(inode) ==
            IF ~inode.ok THEN [s |-> s, r |-> inode]
            ELSE [s |-> s, r |-> Ok(to_attr(inode.v, ino))]
    IN attr(find_inode(s, ino))

create(s, parent, name, mode) ==
    LET inode == [Inode_new(s.sb.block_size) EXCEPT !.mode = mode,
                                                     !.user_id = s.sb.uid,
                                                     !.group_id = s.sb.gid]
        attr(i, s2, created) ==
            IF ~created.ok THEN [s |-> s2.s, r |-> created]
            ELSE [s |-> s2.s, r |-> Ok(to_attr(created.v, i.v))]
        linked(i, s2) ==
            IF ~s2.r.ok THEN [s |-> s2.s, r |-> MapErr(s2.r, "EIO")]
            ELSE attr(i, s2, find_inode(s2.s, i.v))
        saved(i, dir, s1) ==
            IF ~s1.r.ok THEN [s |-> s1.s, r |-> MapErr(s1.r, "EIO")]
            ELSE linked(i, save_dir(s1.s,
                                    [n \in DOMAIN dir.v \cup {name} |->
                                        IF n = name THEN i.v ELSE dir.v[n]],
                                    parent))
        found(i, dir) ==
            IF ~dir.ok THEN [s |-> i.s, r |-> dir]
            ELSE saved(i, dir, save_inode(i.s, inode, i.v))
        new(i) ==
            IF i.v = 0 THEN [s |-> i.s, r |-> Err("ENOSPC")]
            ELSE found(i, find_dir_from_inode(i.s, parent))
    IN new(allocate_inode(s))

mkdir(s, parent, name, mode) ==
    LET inode == [Inode_new(s.sb.block_size) EXCEPT
                     !.mode = S_IFDIR + mode - BitAnd(S_IFDIR, mode),
                     !.hard_links = 2,
                     !.user_id = s.sb.uid,
                     !.group_id = s.sb.gid]
        attr(i, s3, created) ==
            IF ~created.ok THEN [s |-> s3.s, r |-> created]
            ELSE [s |-> s3.s, r |-> Ok(to_attr(created.v, i.v))]
        linked(i, s3) ==
            IF ~s3.r.ok THEN [s |-> s3.s, r |-> MapErr(s3.r, "EIO")]
            ELSE attr(i, s3, find_inode(s3.s, i.v))
        emptied(i, dir, s2) ==
            IF ~s2.r.ok THEN [s |-> s2.s, r |-> MapErr(s2.r, "EIO")]
            ELSE linked(i, save_dir(s2.s,
                                    [n \in DOMAIN dir.v \cup {name} |->
                                        IF n = name THEN i.v ELSE dir.v[n]],
                                    parent))
        saved(i, dir, b, s1) ==
            IF ~s1.r.ok THEN [s |-> s1.s, r |-> MapErr(s1.r, "EIO")]
            ELSE emptied(i, dir, save_dir(s1.s, NoEntries, b.v))
        data_block(i, dir, b) ==
            IF b.v = 0 THEN [s |-> b.s, r |-> Err("ENOSPC")]
            ELSE saved(i, dir, b,
                       save_inode(b.s, [inode EXCEPT !.direct_blocks[1] = b.v], i.v))
        found(i, dir) ==
            IF ~dir.ok THEN [s |-> i.s, r |-> dir]
            ELSE data_block(i, dir, allocate_data_block(i.s))
        new(i) ==
            IF i.v = 0 THEN [s |-> i.s, r |-> Err("ENOSPC")]
            ELSE found(i, find_dir_from_inode(i.s, parent))
    IN new(allocate_inode(s))

\* unlink: the blocks are released, the directory is saved without the
\* name, then the inode is released.
\* unlink as it would be if it released the blocks and replied, without
\* saving the directory or releasing the inode.
unlink_without_removal(s, parent, name) ==
    LET double(r3) ==
            IF ~r3.r.ok THEN [s |-> r3.s, r |-> MapErr(r3.r, "EIO")]
            ELSE [s |-> r3.s, r |-> Ok(TRUE)]
        indirect(inode, r2) ==
            IF ~r2.r.ok THEN [s |-> r2.s, r |-> MapErr(r2.r, "EIO")]
            ELSE double(IF inode.double_indirect_block # 0
                        THEN release_double_indirect_block(
                                 r2.s, inode.double_indirect_block)
                        ELSE r2)
        direct(inode, r1) ==
            IF ~r1.r.ok THEN r1
            ELSE indirect(inode,
                          IF inode.indirect_block # 0
                          THEN release_indirect_block(r1.s, inode.indirect_block)
                          ELSE r1)
        named(inode) ==
            IF ~inode.ok THEN [s |-> s, r |-> inode]
            ELSE direct(inode.v, release_data_blocks(s, direct_blocks(inode.v)))
        found(dir) ==
            IF ~dir.ok THEN [s |-> s, r |-> dir]
            ELSE IF name \notin DOMAIN dir.v THEN [s |-> s, r |-> Err("ENOENT")]
            ELSE named(find_inode(s, dir.v[name]))
    IN found(find_dir_from_inode(s, parent))

unlink(s, parent, name) ==
    LET unlinked(index, s4) ==
            IF ~s4.r.ok THEN [s |-> s4.s, r |-> MapErr(s4.r, "EIO")]
            ELSE release_inode(s4.s, index)
        double(dir, index, r3) ==
            IF ~r3.r.ok THEN [s |-> r3.s, r |-> MapErr(r3.r, "EIO")]
            ELSE unlinked(index,
                          save_dir(r3.s,
                                   [n \in DOMAIN dir.v \ {name} |-> dir.v[n]],
                                   parent))
        indirect(dir, index, inode, r2) ==
            IF ~r2.r.ok THEN [s |-> r2.s, r |-> MapErr(r2.r, "EIO")]
            ELSE double(dir, index,
                        IF inode.double_indirect_block # 0
                        THEN release_double_indirect_block(
                                 r2.s, inode.double_indirect_block)
                        ELSE r2)
        direct(dir, index, inode, r1) ==
            IF ~r1.r.ok THEN r1
            ELSE indirect(dir, index, inode,
                          IF inode.indirect_block # 0
                          THEN release_indirect_block(r1.s, inode.indirect_block)
                          ELSE r1)
        named(dir, index, inode) ==
            IF ~inode.ok THEN [s |-> s, r |-> inode]
            ELSE direct(dir, index, inode.v,
                        release_data_blocks(s, direct_blocks(inode.v)))
        found(dir) ==
            IF ~dir.ok THEN [s |-> s, r |-> dir]
            ELSE IF name \notin DOMAIN dir.v THEN [s |-> s, r |-> Err("ENOENT")]
            ELSE named(dir, dir.v[name], find_inode(s, dir.v[name]))
    IN found(find_dir_from_inode(s, parent))


\* data[from + 1 .. to], the Rust slice data[from..to].
Slice(data, from, to) == [i \in 1..(to - from) |-> data[from + i]]

\* The loop of write from one iteration on.  chunks logs, per iteration,
\* <<physical block, in-block offset, bytes written>>.  An iteration that
\* writes nothing leaves every loop variable as it was: the loop never ends.
RECURSIVE write_loop(_, _, _, _, _, _)
write_loop(s, inode, data, total_wrote, current_offset, chunks) ==
    LET blk_size == s.sb.block_size
        direct_block_index == current_offset \div blk_size
        offset_in_block == IF total_wrote # 0 THEN 0
                           ELSE current_offset - direct_block_index * blk_size
        wrote(f, block_index, w) ==
            IF w.n = 0
            THEN [s |-> w.s, inode |-> f.inode, r |-> Err("HANG"), chunks |-> chunks]
            ELSE write_loop(w.s, f.inode, data, total_wrote + w.n,
                            current_offset + w.n,
                            Append(chunks, <<block_index, offset_in_block, w.n>>))
        chunk(f, block_index, max_write_len) ==
            wrote(f, block_index,
                  write_data(f.s,
                             Slice(data, total_wrote,
                                   Min(Len(data), max_write_len + total_wrote)),
                             offset_in_block, block_index))
        found(f) ==
            IF ~f.r.ok THEN [s |-> f.s, inode |-> f.inode, r |-> f.r, chunks |-> chunks]
            ELSE chunk(f, f.r.v[1], Min(Len(data), f.r.v[2]))
    IN IF total_wrote = Len(data)
       THEN [s |-> s, inode |-> inode, r |-> Ok(total_wrote), chunks |-> chunks]
       ELSE found(find_data_block(s, inode, current_offset, FALSE))

write(s, ino, offset, data) ==
    LET saved(l, s1) ==
            IF ~s1.r.ok
            THEN [s |-> s1.s, r |-> MapErr(s1.r, "EIO"), chunks |-> l.chunks]
            ELSE [s |-> s1.s, r |-> Ok(l.r.v), chunks |-> l.chunks]
        wrote(overwrite, l) ==
            IF ~l.r.ok THEN [s |-> l.s, r |-> l.r, chunks |-> l.chunks]
            ELSE saved(l, save_inode(l.s,
                                     IF overwrite THEN adjust_size(l.inode, l.r.v)
                                     ELSE increment_size(l.inode, l.r.v),
                                     ino))
        found(inode) ==
            IF ~inode.ok THEN [s |-> s, r |-> inode, chunks |-> <<>>]
            ELSE wrote(inode.v.size > offset,
                       write_loop(s, inode.v, data, 0, offset, <<>>))
    IN found(find_inode(s, ino))

\* The loop of read from one iteration on; data is the prefix filled so far
\* (total_read = Len(data)), size the length of the reply buffer.
RECURSIVE read_loop(_, _, _, _, _, _)
read_loop(s, inode, size, should_read, data, current_offset) ==
    LET blk_size == s.sb.block_size
        total_read == Len(data)
        direct_block_index == current_offset \div blk_size
        offset_in_block == IF total_read # 0 THEN 0
                           ELSE current_offset - direct_block_index * blk_size
        filled(rd) ==
            IF ~rd.ok THEN Err("EIO")
            ELSE IF Len(rd.v) = 0 THEN Err("HANG")
            ELSE read_loop(s, inode, size, should_read, data \o rd.v,
                           current_offset + Len(rd.v))
        chunk(block_index, max_read_len) ==
            filled(read_data(s, max_read_len - total_read, offset_in_block,
                             block_index))
        found(f) ==
            IF ~f.r.ok THEN f.r
            ELSE chunk(f.r.v[1], Min(size, Min(size, f.r.v[2]) + total_read))
    IN IF total_read = should_read THEN Ok(data)
       ELSE found(find_data_block(s, inode, current_offset, TRUE))

read(s, ino, offset, size) ==
    LET saved(l, s1) ==
            IF ~s1.r.ok THEN [s |-> s1.s, r |-> MapErr(s1.r, "EIO")]
            ELSE [s |-> s1.s, r |-> l]
        filled(inode, l) ==
            IF ~l.ok THEN [s |-> s, r |-> l]
            ELSE saved(l, save_inode(s, inode, ino))
        found(inode) ==
            IF ~inode.ok THEN [s |-> s, r |-> inode]
            ELSE filled(inode.v,
                        read_loop(s, inode.v, size, Min(size, inode.v.size), <<>>,
                                  offset))
    IN found(find_inode(s, ino))


\* ------------------------------------------------------------------------
\* The external-memory sorter (src/src/ext_arr.rs, src/src/sort.rs).
\* An ExtArr<Number, Cursor<Vec<u8>>> is its elements `data` and the byte
\* position `pos` of the cursor; Number is u16 (src/src/system.rs).
NumberSize == 2

ExtArr_new(data) == [data |-> data, pos |-> 0]

\* ExtArr::read into a buffer of cap bytes: one Read::read of the cursor,
\* then bytemuck::try_cast_slice_mut, which fails when the bytes read are
\* no whole number of elements or the buffer does not start on an element
\* boundary (aligned).  The array after the read and the elements or error.
ExtArr_read(a, cap, aligned) ==
    LET have == Len(a.data) * NumberSize
        bytes_read == Min(cap, IF a.pos < have THEN have - a.pos ELSE 0)
        first == a.pos \div NumberSize
    IN [a |-> [a EXCEPT !.pos = @ + bytes_read],
        r |-> IF ~aligned \/ bytes_read % NumberSize # 0
              THEN Err("InvalidData")
              ELSE Ok(SubSeq(a.data, first + 1, first + bytes_read \div NumberSize))]

\* ExtArr::write: write_all at the cursor, over what is there and beyond.
ExtArr_write(a, elems) ==
    LET first == a.pos \div NumberSize
    IN [data |-> SubSeq(a.data, 1, first) \o elems
                 \o SubSeq(a.data, first + Len(elems) + 1, Len(a.data)),
        pos |-> a.pos + Len(elems) * NumberSize]

\* Seek to the start left out: the cursor stays where it is.
rewind_skipped(a) == a

rewind(a) == [a EXCEPT !.pos = 0]

\* Clone of ExtArr over a Cursor<Vec<u8>>: its own bytes and position.
ExtArr_clone(a) == a

RECURSIVE Insert(_, _)
Insert(x, sorted) ==
    IF sorted = <<>> THEN <<x>>
    ELSE IF x <= Head(sorted) THEN <<x>> \o sorted
    ELSE <<Head(sorted)>> \o Insert(x, Tail(sorted))

RECURSIVE sort_unstable(_)
\* slice::sort_unstable, by the order of the elements.
sort_unstable(items) ==
    IF items = <<>> THEN <<>> ELSE Insert(Head(items), sort_unstable(Tail(items)))

\* The factory the callers pass: a new in-memory array for every run number.
factory(chunk_id) == Ok(ExtArr_new(<<>>))

\* ExtSorter::sort_chunks from one iteration of its loop on.  calls logs the
\* run numbers given to the factory.
RECURSIVE sort_chunks_loop(_, _, _, _, _, _)
sort_chunks_loop(cap, aligned, reader, chunk_id, tmp_arrs, calls) ==
    LET rd == ExtArr_read(reader, cap, aligned)
        tmp_ext_arr == rewind(ExtArr_write(factory(chunk_id).v, sort_unstable(rd.r.v)))
    IN IF ~rd.r.ok
       THEN [reader |-> rd.a, tmp_arrs |-> tmp_arrs, calls |-> calls, r |-> rd.r]
       ELSE IF rd.r.v = <<>>
       THEN [reader |-> rd.a, tmp_arrs |-> tmp_arrs, calls |-> calls, r |-> Ok(TRUE)]
       ELSE sort_chunks_loop(cap, aligned, rd.a, chunk_id + 1,
                             Append(tmp_arrs, tmp_ext_arr), Append(calls, chunk_id))

sort_chunks(cap, aligned, reader) ==
    sort_chunks_loop(cap, aligned, reader, 0, <<>>, <<>>)

\* The first loop of merge_chunks: the first item of every source.  heap is
\* a set of <<item, source>>.
RECURSIVE merge_first(_, _, _)
merge_first(sources, k, heap) ==
    IF k > Len(sources) THEN [sources |-> sources, heap |-> heap, r |-> Ok(TRUE)]
    ELSE CHOOSE first \in
        {IF ~rd.r.ok THEN [sources |-> s, heap |-> h, r |-> rd.r]
         ELSE IF rd.r.v = <<>>
         THEN [sources |-> s, heap |-> h, r |-> Err("PANIC")]
         ELSE merge_first([s EXCEPT ![k] = rd.a], k + 1, h \cup {<<rd.r.v[1], k>>}) :
            s \in {sources}, h \in {heap},
            rd \in {ExtArr_read(sources[k], NumberSize, TRUE)}} : TRUE

\* The second loop: pop the least item, write it, read the next item of
\* its source.
RECURSIVE merge_pop(_, _, _)
merge_pop(writer, sources, heap) ==
    LET least(hp) == CHOOSE e \in hp :
                        \A o \in hp : e[1] < o[1] \/ (e[1] = o[1] /\ e[2] <= o[2])
    IN IF heap = {} THEN [writer |-> writer, r |-> Ok(TRUE)]
       ELSE CHOOSE popped \in
           {IF ~rd.r.ok THEN [writer |-> w, r |-> rd.r]
            ELSE merge_pop(w, [s EXCEPT ![top[2]] = rd.a],
                           IF rd.r.v = <<>> THEN rest
                           ELSE rest \cup {<<rd.r.v[1], top[2]>>}) :
               s \in {sources}, top \in {least(heap)}, rest \in {heap \ {least(heap)}},
               w \in {ExtArr_write(writer, <<least(heap)[1]>>)},
               rd \in {ExtArr_read(sources[least(heap)[2]], NumberSize, TRUE)}} : TRUE

\* ExtSorter::merge_chunks with a buffer of cap bytes (split_at_mut panics
\* on a buffer shorter than one element).
merge_chunks(cap, writer, chunk_readers) ==
    LET first == merge_first(chunk_readers, 1, {})
    IN IF cap < NumberSize THEN [writer |-> writer, r |-> Err("PANIC")]
       ELSE IF ~first.r.ok THEN [writer |-> writer, r |-> first.r]
       ELSE merge_pop(writer, first.sources, first.heap)

\* ExtSorter::sort: the array afterwards, the result and the factory calls.
sort(ext_arr, cap) ==
    LET c == sort_chunks(cap, TRUE, ext_arr)
        m == merge_chunks(cap, rewind(c.reader), c.tmp_arrs)
    IN IF ~c.r.ok THEN [arr |-> c.reader, r |-> c.r, calls |-> c.calls]
       ELSE [arr |-> m.writer, r |-> m.r, calls |-> c.calls]

\* ------------------------------------------------------------------------
\* The mounted file system as a state machine.  The host (the kernel side
\* of FUSE) sends one request at a time; each action is one handler run to
\* its reply.
VARIABLES
    fs,        \* the engine: superblock, groups and the mmap
    status,    \* "mounted", or "panicked" / "hung" once a handler did not return
    last,      \* the last request, what it saw before, and its reply
    links,     \* ghost: <<parent, name>> -> index, for every create or mkdir that
               \* replied success and whose name no unlink has removed since
    written,   \* ghost: per inode index, offset -> byte of the most recent
               \* successful write covering the offset
    ops,       \* requests the host still sends
    srt        \* one run of the external sorter (NoSort while the file system runs)

vars == <<fs, status, last, links, written, ops, srt>>

NoSort == [mode |-> "none", phase |-> "idle"]

\* Groups of the image (mkfs::make: image size / block_group_size).
ImageGroups == 1

\* What the host sends.
Inos == 0..3

Offsets == {0, 30, 32, 384}

Datas == {<<7>>, <<1, 2, 3, 4>>}

Sizes == {1, 4}

FileMode == S_IFREG + 420

DirMode == 493

NoBytes == [o \in {} |-> 0]

Request(op, ino, name, offset, data, size) ==
    [op |-> op, ino |-> ino, name |-> name, offset |-> offset, data |-> data,
     size |-> size]

\* last, uniformly shaped: old is the size of inode `ino` as find_inode gave
\* it before the handler ran (-1 if it gave none), index the inode the
\* handler allocated or, for unlink, found under the name (0 if none),
\* chunks the write loop's log.
Last(req, r, old, index, chunks) ==
    [req |-> req, r |-> r, old |-> old, index |-> index, chunks |-> chunks]

\* The replies by kind: reply.ok(), reply.written(n), reply.data(bytes);
\* lookup, getattr, create and mkdir reply the attributes as v.  An error
\* reply is the errno whatever the request.
ReplyOk(r) == IF r.ok THEN [ok |-> TRUE] ELSE r

ReplyWritten(r) == IF r.ok THEN [ok |-> TRUE, written |-> r.v] ELSE r

ReplyData(r) == IF r.ok THEN [ok |-> TRUE, data |-> r.v] ELSE r

old_size(s, ino) ==
    LET size_of(inode) == IF inode.ok THEN inode.v.size ELSE -1
    IN IF ino = 0 THEN -1 ELSE size_of(find_inode(s, ino))

Outcome(r) ==
    IF r.ok THEN "mounted"
    ELSE IF r.err = "PANIC" THEN "panicked"
    ELSE IF r.err = "HANG" THEN "hung"
    ELSE "mounted"

Init ==
    /\ fs = create_root(fresh_image(BlockSize, ImageGroups)).s
    /\ status = "mounted"
    /\ last = Last(Request("mount", 0, <<>>, 0, <<>>, 0), ReplyOk(Ok(TRUE)), -1, 0, <<>>)
    /\ links = [l \in {} |-> 0]
    /\ written = [i \in {} |-> NoBytes]
    /\ ops = MaxOps
    /\ srt = NoSort

Ready == status = "mounted" /\ ops > 0

\* The index create and mkdir allocate (0 if none): their first step.
allocated(s) == allocate_inode(s).v

\* The index unlink finds under the name (0 if none).
removed(s, parent, name) ==
    LET named(dir) == IF dir.ok /\ name \in DOMAIN dir.v THEN dir.v[name] ELSE 0
    IN IF parent = 0 THEN 0 ELSE named(find_dir_from_inode(s, parent))

Linked(l, parent, name, index) ==
    [k \in DOMAIN l \cup {<<parent, name>>} |->
        IF k = <<parent, name>> THEN index ELSE l[k]]

Fresh(w, index) ==
    IF index = 0 THEN w
    ELSE [i \in DOMAIN w \cup {index} |-> IF i = index THEN NoBytes ELSE w[i]]

Lookup(parent, name) ==
    /\ Ready
    /\ \E o \in {lookup(fs, parent, name)} :
          /\ fs' = o.s
          /\ status' = Outcome(o.r)
          /\ last' = Last(Request("lookup", parent, name, 0, <<>>, 0), o.r,
                          old_size(fs, parent), 0, <<>>)
    /\ ops' = ops - 1
    /\ UNCHANGED srt
    /\ UNCHANGED <<links, written>>

Getattr(ino) ==
    /\ Ready
    /\ \E o \in {getattr(fs, ino)} :
          /\ fs' = o.s
          /\ status' = Outcome(o.r)
          /\ last' = Last(Request("getattr", ino, <<>>, 0, <<>>, 0), o.r,
                          old_size(fs, ino), 0, <<>>)
    /\ ops' = ops - 1
    /\ UNCHANGED srt
    /\ UNCHANGED <<links, written>>

Create(parent, name) ==
    /\ Ready
    /\ \E o \in {create(fs, parent, name, FileMode)}, index \in {allocated(fs)} :
          /\ fs' = o.s
          /\ status' = Outcome(o.r)
          /\ last' = Last(Request("create", parent, name, 0, <<>>, 0), o.r,
                          old_size(fs, parent), index, <<>>)
          /\ links' = IF o.r.ok THEN Linked(links, parent, name, index) ELSE links
          /\ written' = Fresh(written, index)
    /\ ops' = ops - 1
    /\ UNCHANGED srt

Mkdir(parent, name) ==
    /\ Ready
    /\ \E o \in {mkdir(fs, parent, name, DirMode)}, index \in {allocated(fs)} :
          /\ fs' = o.s
          /\ status' = Outcome(o.r)
          /\ last' = Last(Request("mkdir", parent, name, 0, <<>>, 0), o.r,
                          old_size(fs, parent), index, <<>>)
          /\ links' = IF o.r.ok THEN Linked(links, parent, name, index) ELSE links
          /\ written' = Fresh(written, index)
    /\ ops' = ops - 1
    /\ UNCHANGED srt

Unlink(parent, name) ==
    /\ Ready
    /\ \E o \in {unlink(fs, parent, name)} :
          /\ fs' = o.s
          /\ status' = Outcome(o.r)
          /\ last' = Last(Request("unlink", parent, name, 0, <<>>, 0), ReplyOk(o.r),
                          old_size(fs, parent), removed(fs, parent, name), <<>>)
          /\ links' = IF o.r.ok
                      THEN [k \in DOMAIN links \ {<<parent, name>>} |-> links[k]]
                      ELSE links
    /\ ops' = ops - 1
    /\ UNCHANGED srt
    /\ UNCHANGED written

Write(ino, offset, data) ==
    /\ Ready
    /\ \E o \in {write(fs, ino, offset, data)} :
          LET before == IF ino \in DOMAIN written THEN written[ino] ELSE NoBytes
              range == offset..(offset + Len(data) - 1)
              after == [a \in DOMAIN before \cup range |->
                           IF a \in range THEN data[a - offset + 1] ELSE before[a]]
          IN /\ fs' = o.s
             /\ status' = Outcome(o.r)
             /\ last' = Last(Request("write", ino, <<>>, offset, data, 0),
                             ReplyWritten(o.r), old_size(fs, ino), 0, o.chunks)
             /\ written' = IF o.r.ok
                           THEN [i \in DOMAIN written \cup {ino} |->
                                    IF i = ino THEN after ELSE written[i]]
                           ELSE written
    /\ ops' = ops - 1
    /\ UNCHANGED srt
    /\ UNCHANGED links

Read(ino, offset, size) ==
    /\ Ready
    /\ \E o \in {read(fs, ino, offset, size)} :
          /\ fs' = o.s
          /\ status' = Outcome(o.r)
          /\ last' = Last(Request("read", ino, <<>>, offset, <<>>, size),
                          ReplyData(o.r), old_size(fs, ino), 0, <<>>)
    /\ ops' = ops - 1
    /\ UNCHANGED srt
    /\ UNCHANGED <<links, written>>

Next ==
    \/ \E parent \in Inos, name \in Names : Lookup(parent, name)
    \/ \E ino \in Inos : Getattr(ino)
    \/ \E parent \in Inos, name \in Names : Create(parent, name)
    \/ \E parent \in Inos, name \in Names : Mkdir(parent, name)
    \/ \E parent \in Inos, name \in Names : Unlink(parent, name)
    \/ \E ino \in Inos, offset \in Offsets, data \in Datas : Write(ino, offset, data)
    \/ \E ino \in Inos, offset \in Offsets, size \in Sizes : Read(ino, offset, size)

Spec == Init /\ [][Next]_vars


\* The namespace requests alone, for longer runs of them.
InitDir ==
    /\ fs = create_root(fresh_image(BlockSize, ImageGroups)).s
    /\ status = "mounted"
    /\ last = Last(Request("mount", 0, <<>>, 0, <<>>, 0), ReplyOk(Ok(TRUE)), -1, 0, <<>>)
    /\ links = [l \in {} |-> 0]
    /\ written = [i \in {} |-> NoBytes]
    /\ ops = MaxDirOps
    /\ srt = NoSort

NextDir ==
    \/ \E parent \in Inos, name \in Names : Lookup(parent, name)
    \/ \E parent \in Inos, name \in Names : Create(parent, name)
    \/ \E parent \in Inos, name \in Names : Mkdir(parent, name)
    \/ \E parent \in Inos, name \in Names : Unlink(parent, name)

SpecDir == InitDir /\ [][NextDir]_vars

\* ------------------------------------------------------------------------
\* One run of a sorter as a state machine.  The caller has written the
\* input S to the array, flushed and rewound it (src/src/system.rs), and
\* hands over a buffer of B bytes whose start is aligned for Number.
\* parallel_sort's workers each hold the buffer's mutex for their whole
\* closure, so a worker is one step; RayonExtSorter::sort_chunks's tasks
\* share only the atomic chunk_id, so each access to it is a step.
MaxN == 3

Elems == 1..3

MaxBuf == 6

MaxWorkers == 2

Inputs == UNION {[1..n -> Elems] : n \in 0..MaxN}

Task(cap, aligned, reader) ==
    [pc |-> "read", cap |-> cap, aligned |-> aligned, reader |-> reader,
     read |-> <<>>, tmp_arrs |-> <<>>, r |-> Ok(TRUE)]

\* The tasks of chunks i, ..., n-1 of a buffer of len bytes cut every
\* chunk_size bytes (the last may be shorter).
RECURSIVE Tasks(_, _, _, _, _)
Tasks(i, n, len, chunk_size, reader) ==
    IF i >= n THEN <<>>
    ELSE <<Task(Min(chunk_size, len - i * chunk_size),
                (i * chunk_size) % NumberSize = 0, ExtArr_clone(reader))>>
         \o Tasks(i + 1, n, len, chunk_size, reader)

RECURSIVE Flatten(_)
Flatten(tasks) ==
    IF tasks = <<>> THEN <<>> ELSE Head(tasks).tmp_arrs \o Flatten(Tail(tasks))

\* The first worker, in spawn order, whose result is an error (0 if none).
FirstErr(tasks) ==
    IF \E i \in 1..Len(tasks) : ~tasks[i].r.ok
    THEN CHOOSE i \in 1..Len(tasks) :
             ~tasks[i].r.ok /\ \A j \in 1..(i - 1) : tasks[j].r.ok
    ELSE 0

SetTask(tasks, i, task) ==
    SubSeq(tasks, 1, i - 1) \o <<task>> \o SubSeq(tasks, i + 1, Len(tasks))

InitSort ==
    /\ fs = create_root(fresh_image(BlockSize, ImageGroups)).s
    /\ status = "mounted"
    /\ last = Last(Request("mount", 0, <<>>, 0, <<>>, 0), ReplyOk(Ok(TRUE)), -1, 0, <<>>)
    /\ links = [l \in {} |-> 0]
    /\ written = [i \in {} |-> NoBytes]
    /\ ops = 0
    /\ \E mode \in {"sort", "parallel_sort", "rayon"}, S \in Inputs,
          B \in 1..MaxBuf, workers \in 1..MaxWorkers :
           /\ mode = "sort" => workers = 1
           /\ srt = [mode |-> mode, phase |-> "new", S |-> S, B |-> B,
                     workers |-> workers, ext_arr |-> ExtArr_new(S),
                     tasks |-> <<>>, chunk_id |-> 0, calls |-> <<>>,
                     r |-> Ok(TRUE)]

Finish(arr, r) == [srt EXCEPT !.phase = "done", !.ext_arr = arr, !.r = r]

\* ExtSorter::sort, the whole call.
Sort ==
    /\ srt.mode = "sort" /\ srt.phase = "new"
    /\ LET s == sort(srt.ext_arr, srt.B)
       IN srt' = [Finish(s.arr, s.r) EXCEPT !.calls = s.calls]
    /\ UNCHANGED <<fs, status, last, links, written, ops>>

\* ExtSorter::parallel_sort up to the spawn of its workers.
ParSpawn ==
    /\ srt.mode = "parallel_sort" /\ srt.phase = "new"
    /\ srt' = [srt EXCEPT !.phase = "chunks",
                          !.tasks = Tasks(0, srt.workers, srt.B,
                                          srt.B \div srt.workers, srt.ext_arr)]
    /\ UNCHANGED <<fs, status, last, links, written, ops>>

\* Worker i of parallel_sort: lock the buffer, sort_chunks on its slice
\* with its clone of the array, unlock.
ParWorker(i) ==
    /\ srt.mode = "parallel_sort" /\ srt.phase = "chunks"
    /\ i \in 1..Len(srt.tasks) /\ srt.tasks[i].pc = "read"
    /\ LET task == srt.tasks[i]
           c == sort_chunks(task.cap, task.aligned, task.reader)
       IN srt' = [srt EXCEPT
                     !.tasks = SetTask(srt.tasks, i,
                                [task EXCEPT !.pc = "done", !.reader = c.reader,
                                             !.tmp_arrs = c.tmp_arrs, !.r = c.r]),
                     !.calls = srt.calls \o c.calls]
    /\ UNCHANGED <<fs, status, last, links, written, ops>>

\* parallel_sort from the joins on: the first worker error, or the merge.
ParMerge ==
    /\ srt.mode = "parallel_sort" /\ srt.phase = "chunks"
    /\ \A i \in 1..Len(srt.tasks) : srt.tasks[i].pc = "done"
    /\ LET e == FirstErr(srt.tasks)
           m == merge_chunks(srt.B, rewind(srt.ext_arr), Flatten(srt.tasks))
       IN srt' = IF e # 0 THEN Finish(srt.ext_arr, srt.tasks[e].r)
                 ELSE Finish(m.writer, m.r)
    /\ UNCHANGED <<fs, status, last, links, written, ops>>

\* RayonExtSorter::merge_chunks: one slot per whole element of the buffer;
\* with no slot the search for a free one never ends, and mem_slots[0]
\* panics; a failed first read is unwrapped.
rayon_merge_chunks(cap, writer, chunk_readers) ==
    LET first == merge_first(chunk_readers, 1, {})
    IN IF cap < NumberSize
       THEN [writer |-> writer,
             r |-> IF chunk_readers # <<>> THEN Err("HANG") ELSE Err("PANIC")]
       ELSE IF ~first.r.ok THEN [writer |-> writer, r |-> Err("PANIC")]
       ELSE merge_pop(writer, first.sources, first.heap)

\* RayonExtSorter::sort_chunks up to the start of its tasks: par_chunks_mut
\* panics on a chunk size of zero.
RayonSplit ==
    /\ srt.mode = "rayon" /\ srt.phase = "new"
    /\ LET chunk_size == srt.B \div srt.workers
       IN srt' = IF chunk_size = 0 THEN Finish(srt.ext_arr, Err("PANIC"))
                 ELSE [srt EXCEPT !.phase = "chunks",
                                  !.tasks = Tasks(0, (srt.B + chunk_size - 1) \div chunk_size,
                                                  srt.B, chunk_size, srt.ext_arr)]
    /\ UNCHANGED <<fs, status, last, links, written, ops>>

\* Task i reads its next chunk from its clone of the array and sorts it.
RayonRead(i) ==
    /\ srt.mode = "rayon" /\ srt.phase = "chunks"
    /\ i \in 1..Len(srt.tasks) /\ srt.tasks[i].pc = "read"
    /\ LET task == srt.tasks[i]
           rd == ExtArr_read(task.reader, task.cap, task.aligned)
       IN srt' = [srt EXCEPT !.tasks = SetTask(srt.tasks, i,
                     IF ~rd.r.ok
                     THEN [task EXCEPT !.pc = "done", !.reader = rd.a, !.r = Err("PANIC")]
                     ELSE IF rd.r.v = <<>>
                     THEN [task EXCEPT !.pc = "done", !.reader = rd.a]
                     ELSE [task EXCEPT !.pc = "factory", !.reader = rd.a,
                                       !.read = sort_unstable(rd.r.v)])]
    /\ UNCHANGED <<fs, status, last, links, written, ops>>

\* Task i loads chunk_id, asks the factory for that run and writes it.
RayonFactory(i) ==
    /\ srt.mode = "rayon" /\ srt.phase = "chunks"
    /\ i \in 1..Len(srt.tasks) /\ srt.tasks[i].pc = "factory"
    /\ LET task == srt.tasks[i]
           tmp_ext_arr == rewind(ExtArr_write(factory(srt.chunk_id).v, task.read))
       IN srt' = [srt EXCEPT
                     !.tasks = SetTask(srt.tasks, i,
                                [task EXCEPT !.pc = "add",
                                             !.tmp_arrs = Append(@, tmp_ext_arr)]),
                     !.calls = Append(@, srt.chunk_id)]
    /\ UNCHANGED <<fs, status, last, links, written, ops>>

\* Task i adds one to chunk_id and loops.
RayonAdd(i) ==
    /\ srt.mode = "rayon" /\ srt.phase = "chunks"
    /\ i \in 1..Len(srt.tasks) /\ srt.tasks[i].pc = "add"
    /\ srt' = [srt EXCEPT !.chunk_id = @ + 1,
                          !.tasks = SetTask(srt.tasks, i, [srt.tasks[i] EXCEPT !.pc = "read"])]
    /\ UNCHANGED <<fs, status, last, links, written, ops>>

\* RayonExtSorter::sort once every task has returned: a task's panic, or
\* the rewind and the merge.
RayonMerge ==
    /\ srt.mode = "rayon" /\ srt.phase = "chunks"
    /\ \A i \in 1..Len(srt.tasks) : srt.tasks[i].pc = "done"
    /\ LET e == FirstErr(srt.tasks)
           m == rayon_merge_chunks(srt.B, rewind(srt.ext_arr), Flatten(srt.tasks))
       IN srt' = IF e # 0 THEN Finish(srt.ext_arr, srt.tasks[e].r)
                 ELSE Finish(m.writer, m.r)
    /\ UNCHANGED <<fs, status, last, links, written, ops>>

NextSort ==
    \/ Sort
    \/ ParSpawn
    \/ \E i \in 1..MaxWorkers : ParWorker(i)
    \/ ParMerge
    \/ RayonSplit
    \/ \E i \in 1..(MaxWorkers + 1) : RayonRead(i)
    \/ \E i \in 1..(MaxWorkers + 1) : RayonFactory(i)
    \/ \E i \in 1..(MaxWorkers + 1) : RayonAdd(i)
    \/ RayonMerge

SpecSort == InitSort /\ [][NextSort]_vars

Sorted(items) == \A i \in 1..(Len(items) - 1) : items[i] <= items[i + 1]

SortDone(mode) == srt.mode = mode /\ srt.phase = "done"

\* C4: for every input and every buffer of at least two elements,
\* ExtSorter::sort succeeds and leaves the array holding the sorted
\* permutation of the input.
C4_SortSortsAnyBuffer ==
    (SortDone("sort") /\ srt.B >= 2 * NumberSize) =>
        srt.r.ok /\ srt.ext_arr.data = sort_unstable(srt.S)

\* C5: with independent clones, parallel_sort leaves the array as
\* ExtSorter::sort does on the same input and buffer: exactly the N
\* elements, in non-decreasing order (taken for buffers of two elements at
\* least that give every worker whole elements).
C5_ParallelSameAsSerial ==
    (SortDone("parallel_sort") /\ srt.B % (srt.workers * NumberSize) = 0
       /\ srt.B >= 2 * NumberSize) =>
        /\ srt.r.ok
        /\ srt.ext_arr.data = sort(ExtArr_new(srt.S), srt.B).arr.data
        /\ Len(srt.ext_arr.data) = Len(srt.S)
        /\ Sorted(srt.ext_arr.data)

\* C6: within one parallel_sort or one RayonExtSorter::sort_chunks the
\* factory is never called twice with the same run number.
C6_DistinctRunNumbers ==
    srt.mode \in {"parallel_sort", "rayon"} =>
        \A i, j \in 1..Len(srt.calls) : i # j => srt.calls[i] # srt.calls[j]


\* ------------------------------------------------------------------------
\* Properties of the mounted file system.
Running == status = "mounted"

\* The indexes whose bit is set in the inode bitmap of their group.
AllocatedInodes ==
    {i \in 1..fs.sb.inode_count :
        has_inode(fs.groups[inode_offsets(fs, i)[1] + 1], i)}

\* The regular files find_inode reads (index, inode).
RegularFiles ==
    {i \in AllocatedInodes : find_inode(fs, i).ok /\ ~is_dir(find_inode(fs, i).v)}

\* The byte a read-mode mapping of offset o of inode i leads to.
byte_at(s, inode, o) ==
    LET f == find_data_block(s, inode, o, TRUE)
    IN read_data(s, 1, o % s.sb.block_size, f.r.v[1]).v[1]

\* The inodes a create or mkdir that replied success allocated, still linked.
Created == {links[k] : k \in DOMAIN links}

\* The request was for a regular file a successful create made.
OnCreatedFile == last.req.ino \in RegularFiles \cap Created

\* C1: read-after-write.  For every regular-file inode that a successful
\* create made and successful writes filled, and every offset o below its
\* size, the read-mode mapping of o gives a block (no EINVAL) and the byte
\* there is the byte of the most recent write covering o.
C1_ReadAfterWrite ==
    \A i \in RegularFiles \cap Created :
        LET inode == find_inode(fs, i).v
        IN \A o \in 0..(inode.size - 1) :
              /\ find_data_block(fs, inode, o, TRUE).r.ok
              /\ (i \in DOMAIN written /\ o \in DOMAIN written[i])
                     => byte_at(fs, inode, o) = written[i][o]

\* C2: a name that create or mkdir linked with a success reply, and that
\* no unlink has removed, is looked up to the attributes of the inode then
\* allocated.
C2_LookupAfterCreate ==
    \A k \in DOMAIN links :
        LET o == lookup(fs, k[1], k[2])
        IN o.r.ok /\ o.r.v.ino = links[k]


RECURSIVE zero_inode_bits(_)
\* The zero bits of the inode bitmaps, and of the data bitmaps.
zero_inode_bits(groups) ==
    IF groups = <<>> THEN 0
    ELSE free_inodes(Head(groups)) + zero_inode_bits(Tail(groups))

RECURSIVE zero_data_bits(_)
zero_data_bits(groups) ==
    IF groups = <<>> THEN 0
    ELSE free_data_blocks(Head(groups)) + zero_data_bits(Tail(groups))

C7_SizeAfterWrite ==
    (last.req.op = "write" /\ last.r.ok /\ OnCreatedFile) =>
        LET inode == find_inode(fs, last.req.ino)
        IN /\ inode.ok
           /\ inode.v.size = Max(last.old, last.req.offset + last.r.written)

\* C8: every chunk of a write (here to a regular file) lies inside the
\* physical block the mapping returned: in-block offset plus chunk length is
\* at most the block size.
C8_ChunkInsideBlock ==
    (last.req.op = "write" /\ OnCreatedFile) =>
        \A k \in 1..Len(last.chunks) :
            last.chunks[k][2] + last.chunks[k][3] <= fs.sb.block_size

\* Every offset below the size of the inode maps to a block in read mode.
NoHoles(s, inode) ==
    \A o \in 0..(inode.size - 1) : find_data_block(s, inode, o, TRUE).r.ok

\* C9: a read of n bytes on a regular file without holes below its size replies
\* with data, no longer than min(n, size).
C9_ReadReplyBounded ==
    (/\ last.req.op = "read"
     /\ OnCreatedFile
     /\ last.old >= 0
     /\ find_inode(fs, last.req.ino).ok
     /\ NoHoles(fs, find_inode(fs, last.req.ino).v))
    => /\ last.r.ok
       /\ Len(last.r.data) <= Min(last.req.size, last.old)

held_blocks(s, inode) ==
    Len(direct_blocks(inode))
    + (IF inode.indirect_block = 0 THEN 0
       ELSE 1 + Len(read_indirect_block(s, inode.indirect_block).v))
    + (IF inode.double_indirect_block = 0 THEN 0
       ELSE 1 + Len(read_indirect_block(s, inode.double_indirect_block).v)
              + Len(read_leaves(s, read_indirect_block(
                                       s, inode.double_indirect_block).v).v))

\* C11: an unlink of a regular file that replies success gives back the
\* inode and every block the file held, the indirect blocks themselves
\* included: free_inodes grows by one and free_blocks by the number of
\* blocks held, so both return to their values before the create.
C11_UnlinkReleasesEverything ==
    [][(/\ last'.req.op = "unlink" /\ last'.r.ok
        /\ last'.index \in RegularFiles \cap Created)
       => /\ fs'.sb.free_inodes = fs.sb.free_inodes + 1
          /\ fs'.sb.free_blocks =
                 fs.sb.free_blocks
                 + held_blocks(fs, find_inode(fs, last'.index).v)]_vars

\* The inode indexes and the data blocks whose bit is clear in the bitmap
\* of their group.
FreeInodes ==
    UNION {{(gi - 1) * fs.sb.data_blocks_per_group + i :
                i \in (1..fs.groups[gi].len) \ fs.groups[gi].inode_bitmap} :
           gi \in DOMAIN fs.groups}

FreeBlocks ==
    UNION {{(gi - 1) * fs.sb.data_blocks_per_group + i :
                i \in (1..fs.groups[gi].len) \ fs.groups[gi].data_bitmap} :
           gi \in DOMAIN fs.groups}

\* C12: first-free allocation.  In every reachable state, whatever was
\* allocated and released before, allocate_inode returns the smallest free
\* inode index and allocate_data_block the smallest free data block.
C12_FirstFree ==
    LET least(free, got) ==
            free # {} => (got \in free /\ \A j \in free : got <= j)
    IN Running =>
        /\ least(FreeInodes, allocate_inode(fs).v)
        /\ least(FreeBlocks, allocate_data_block(fs).v)

\* C12 witness: a create or mkdir issued after an unlink succeeded and was
\* given the inode index the unlink freed, below an index still allocated.
C12_Witness ==
    /\ last.req.op \in {"create", "mkdir"} /\ last.r.ok
    /\ \E j \in AllocatedInodes : j > last.index

\* C13: the serialised inode record fits in its 128-byte slot, so saving
\* an inode writes inside that slot only: a step changes no stored inode
\* other than the one the request names and the one it allocated or
\* released, and every other readable inode reads back the same, with a
\* checksum that verifies.
C13_SaveInodeStaysInSlot ==
    [][\A j \in ((1..fs.sb.inode_count) \ FreeInodes)
                    \ {last'.req.ino, last'.index} :
           find_inode(fs, j).ok => find_inode(fs', j) = find_inode(fs, j)]_vars

\* ------------------------------------------------------------------------
\* The life of an image: mkfs::make, mounting (SimpleExt4FS::new), requests,
\* unmounting (destroy), mounting again.

\* mkfs::make as it would be without its check of the size.
make_any_size(exists, file_size, blk_size) ==
    LET bg_size == block_group_size(blk_size)
        groups == (file_size + bg_size - 1) \div bg_size
    IN IF exists THEN Err("EEXIST")
       ELSE Ok(fresh_image(blk_size, groups))

\* mkfs::make on a path where a file exists or not: the image it creates,
\* or its error (the size is checked before the file is opened with
\* create_new).  groups is the f64 quotient rounded up.
make(exists, file_size, blk_size) ==
    LET bg_size == block_group_size(blk_size)
        groups == (file_size + bg_size - 1) \div bg_size
    IN IF file_size < bg_size - 2 * blk_size THEN Err("file size too small")
       ELSE IF exists THEN Err("EEXIST")
       ELSE Ok(fresh_image(blk_size, groups))

\* SimpleExt4FS::new as it would be without its call of create_root.
SimpleExt4FS_new_without_root(image) ==
    LET opened(sb) ==
            IF ~sb.ok THEN [s |-> image, r |-> sb]
            ELSE [s |-> [image EXCEPT
                            !.sb = sb.v,
                            !.groups = Group_deserialize_from(image.hdr.bitmaps,
                                           sb.v.block_size, sb.v.groups)],
                  r |-> Ok(TRUE)]
    IN opened(Superblock_deserialize_from(image.hdr.sb))

\* SimpleExt4FS::new on an image: the superblock and the groups are read
\* from the start of the file and of each group, then create_root.
SimpleExt4FS_new(image) ==
    LET opened(sb) ==
            IF ~sb.ok THEN [s |-> image, r |-> sb]
            ELSE create_root([image EXCEPT
                     !.sb = sb.v,
                     !.groups = Group_deserialize_from(image.hdr.bitmaps,
                                                       sb.v.block_size, sb.v.groups)])
    IN opened(Superblock_deserialize_from(image.hdr.sb))

\* destroy as it would be if it returned once the superblock is written.
destroy_superblock_only(s) ==
    [s EXCEPT !.hdr.sb = Superblock_serialize_into(s.sb)]

\* destroy: the superblock is serialised at the start of the mapping, the
\* bitmaps of each group at the start of the group, and the mapping flushed.
destroy(s) ==
    [s EXCEPT !.hdr = [sb |-> Superblock_serialize_into(s.sb),
                       bitmaps |-> Group_serialize_into(s.groups) @@ s.hdr.bitmaps]]

\* readdir: ".", "..", then the entries of the BTreeMap in the order of
\* their names, those whose inode find_inode does not return left out; each
\* is handed to reply.add with its position plus one as next offset, from
\* position `offset` on.  (The reply buffer holds them all.)
readdir(s, ino, offset) ==
    LET item(position, index, kind, name) ==
            [ino |-> index, next |-> position, kind |-> kind, name |-> name]
        kind_of(inode) == IF is_dir(inode.v) THEN "Directory" ELSE "RegularFile"
        added(entries) == SubSeq(entries, offset + 1, Len(entries))
        pushed(dir, names) ==
            <<item(1, ino, "Directory", <<46>>), item(2, 1, "Directory", <<46, 46>>)>>
            \o [r \in 1..Len(names) |->
                   item(r + 2, dir[names[r]], kind_of(find_inode(s, dir[names[r]])),
                        names[r])]
        listed(dir) ==
            IF ~dir.ok THEN [s |-> s, r |-> dir]
            ELSE IF \E n \in DOMAIN dir.v : dir.v[n] = 0
            THEN [s |-> s, r |-> Err("PANIC")]
            ELSE [s |-> s,
                  r |-> Ok(added(pushed(dir.v,
                               SortedNames({n \in DOMAIN dir.v :
                                              find_inode(s, dir.v[n]).ok}))))]
    IN listed(find_dir_from_inode(s, ino))

MaxLifeOps == 3

Make(file_size, blk_size) ==
    /\ status \in {"absent", "foreign", "made", "unmounted"}
    /\ \E o \in {make(status # "absent", file_size, blk_size)} :
          /\ fs' = IF o.ok THEN o.v ELSE fs
          /\ status' = IF o.ok THEN "made" ELSE status
          /\ last' = Last(Request("make", blk_size, <<>>, 0, <<>>, file_size),
                          ReplyOk(o), -1, 0, <<>>)
    /\ UNCHANGED <<links, written, ops, srt>>

Mount ==
    /\ status \in {"made", "unmounted"}
    /\ \E o \in {SimpleExt4FS_new(fs)} :
          /\ fs' = o.s
          /\ status' = IF o.r.ok THEN "mounted" ELSE status
          /\ last' = Last(Request("mount", 0, <<>>, 0, <<>>, 0), ReplyOk(o.r),
                          -1, 0, <<>>)
    /\ UNCHANGED <<links, written, ops, srt>>

Destroy ==
    /\ status = "mounted"
    /\ fs' = destroy(fs)
    /\ status' = "unmounted"
    /\ last' = Last(Request("destroy", 0, <<>>, 0, <<>>, 0), ReplyOk(Ok(TRUE)),
                    -1, 0, <<>>)
    /\ UNCHANGED <<links, written, ops, srt>>

Readdir(ino, offset) ==
    /\ Ready
    /\ \E o \in {readdir(fs, ino, offset)} :
          /\ fs' = o.s
          /\ status' = Outcome(o.r)
          /\ last' = Last(Request("readdir", ino, <<>>, offset, <<>>, 0),
                          IF o.r.ok THEN [ok |-> TRUE, entries |-> o.r.v] ELSE o.r,
                          old_size(fs, ino), 0, <<>>)
    /\ ops' = ops - 1
    /\ UNCHANGED srt
    /\ UNCHANGED <<links, written>>

\* At first the path holds no file, or a file that is no image; fs is then
\* the image of no group.
InitLife ==
    /\ fs = fresh_image(BlockSize, 0)
    /\ status \in {"absent", "foreign"}
    /\ last = Last(Request("none", 0, <<>>, 0, <<>>, 0), ReplyOk(Ok(TRUE)), -1, 0, <<>>)
    /\ links = [l \in {} |-> 0]
    /\ written = [i \in {} |-> NoBytes]
    /\ ops = MaxLifeOps
    /\ srt = NoSort

\* make is asked for 16384 bytes, for the least size it accepts and for one
\* byte more than one group, with the block size of the requests or 128.
NextLife ==
    \/ \E file_size \in {16384, block_group_size(BlockSize) - 2 * BlockSize,
                          block_group_size(BlockSize) + 1},
          blk_size \in {BlockSize, 128} : Make(file_size, blk_size)
    \/ Mount
    \/ Destroy
    \/ \E parent \in Inos, name \in Names : Create(parent, name)
    \/ \E parent \in Inos, name \in Names : Mkdir(parent, name)
    \/ \E parent \in Inos, name \in Names : Unlink(parent, name)
    \/ \E ino \in Inos, offset \in 0..3 : Readdir(ino, offset)

SpecLife == InitLife /\ [][NextLife]_vars

C15_MountCreatesRootOnce ==
    [][(status # "mounted" /\ status' = "mounted")
       => IF status = "made"
          THEN /\ fs'.groups[1].inode_bitmap = {ROOT_INODE}
               /\ Cardinality(fs'.groups[1].data_bitmap) = 1
               /\ \A gi \in 2..Len(fs'.groups) :
                      /\ fs'.groups[gi].inode_bitmap = {}
                      /\ fs'.groups[gi].data_bitmap = {}
               /\ find_inode(fs', ROOT_INODE).ok
               /\ find_inode(fs', ROOT_INODE).v.mode = S_IFDIR + 511
               /\ find_inode(fs', ROOT_INODE).v.hard_links = 2
               /\ find_dir_from_inode(fs', ROOT_INODE) = Ok(NoEntries)
               /\ fs'.sb.free_inodes = fs'.sb.inode_count - 1
               /\ fs'.sb.free_blocks = fs'.sb.block_count - 1
          ELSE /\ fs'.groups = fs.groups
               /\ fs'.itab = fs.itab /\ fs'.dmem = fs.dmem /\ fs'.dcrc = fs.dcrc
               /\ find_dir_from_inode(fs', ROOT_INODE)
                      = find_dir_from_inode(fs, ROOT_INODE)]_vars

\* C15 witness: an image of two groups mounted a second time, its root
\* directory holding an entry made under the first mount.
C15_Witness ==
    /\ status = "mounted" /\ last.req.op = "mount" /\ ops < MaxLifeOps
    /\ Len(fs.groups) = 2
    /\ find_dir_from_inode(fs, ROOT_INODE).ok
    /\ DOMAIN find_dir_from_inode(fs, ROOT_INODE).v # {}

C17_MakeExample ==
    [][(/\ status = "absent" /\ last'.req.op = "make"
        /\ last'.req.size = 16384 /\ last'.req.ino = 128)
       => LET GS == block_group_size(128)
              sb == Superblock_deserialize_from(fs'.hdr.sb)
          IN /\ last'.r.ok /\ sb.ok
             /\ sb.v.groups * GS >= 16384 /\ (sb.v.groups - 1) * GS < 16384
             /\ sb.v.free_inodes = 128 * 8 * sb.v.groups
             /\ sb.v.free_blocks = 128 * 8 * sb.v.groups
             /\ fs'.len = 1024 + sb.v.groups * GS]_vars

\* C18: a directory never occupies more than one block.  A create or mkdir
\* whose parent directory, with the new entry, would serialise to more than
\* block_size bytes replies ENOSPC, and no byte outside the block of that
\* directory is written.
C18_DirectoryWithinBlock ==
    [][\A parent \in {last'.req.ino} \ {0} :
          \A dir \in {find_dir_from_inode(fs, parent)} :
             (/\ last'.req.op \in {"create", "mkdir"}
              /\ dir.ok
              /\ Len(dir_bytes([n \in DOMAIN dir.v \cup {last'.req.name} |-> 1])) + 4
                    > fs.sb.block_size)
             => /\ ~last'.r.ok /\ last'.r.err = "ENOSPC"
                /\ \A start \in {data_block_seek_position(
                                      fs, find_inode(fs, parent).v.direct_blocks[1])} :
                      \A a \in (DOMAIN fs'.dmem \cup DOMAIN fs'.dcrc)
                                \ (start..(start + fs.sb.block_size - 1)) :
                         /\ Byte(fs', a) = Byte(fs, a)
                         /\ a \in DOMAIN fs'.dcrc
                               => a \in DOMAIN fs.dcrc /\ fs'.dcrc[a] = fs.dcrc[a]]_vars

\* C19: every request ends with a reply, a payload or an errno, whatever
\* the inode number it names, 0 included: no handler panics and none runs
\* without end.
C19_EveryRequestReplies == status \notin {"panicked", "hung"}

\* C20: readdir(ino, k) on a directory replies, from position k on, (".",
\* ino, directory), ("..", 1, directory), then every entry in ascending
\* order of the names with the kind of its inode, each with its position
\* plus one as next offset; and on a fresh mount mkdir(1, "a") succeeds
\* and makes inode 2 a directory with 2 links, create(1, "b") after it
\* makes inode 3 a regular file, and the listing of the root is then ".",
\* "..", "a", "b".
C20_ReaddirListing ==
    [][/\ \A dir \in {IF last'.req.ino = 0 THEN Err("ENOENT")
                       ELSE find_dir_from_inode(fs, last'.req.ino)} :
             (last'.req.op = "readdir" /\ dir.ok)
             => \A names \in {<<<<46>>, <<46, 46>>>> \o SortedNames(DOMAIN dir.v)} :
                   /\ last'.r.ok
                   /\ Len(last'.r.entries) = Max(0, Len(names) - last'.req.offset)
                   /\ \A i \in 1..Len(last'.r.entries) :
                         \A e \in {last'.r.entries[i]}, p \in {last'.req.offset + i} :
                            /\ e.name = names[p]
                            /\ e.next = p + 1
                            /\ e.ino = IF p = 1 THEN last'.req.ino
                                       ELSE IF p = 2 THEN 1 ELSE dir.v[names[p]]
                            /\ p <= 2 => e.kind = "Directory"
       /\ (/\ last.req.op = "mount" /\ fs.sb.free_inodes = fs.sb.inode_count - 1
           /\ last'.req.op = "mkdir" /\ last'.req.ino = 1 /\ last'.req.name = <<97>>)
          => /\ last'.r.ok /\ last'.index = 2
             /\ find_inode(fs', 2).ok /\ is_dir(find_inode(fs', 2).v)
             /\ find_inode(fs', 2).v.hard_links = 2
       /\ (/\ last.req.op = "mkdir" /\ last.r.ok /\ last.index = 2
           /\ last'.req.op = "create" /\ last'.req.ino = 1 /\ last'.req.name = <<98>>)
          => /\ last'.r.ok /\ last'.index = 3
             /\ find_inode(fs', 3).ok /\ ~is_dir(find_inode(fs', 3).v)
             /\ DOMAIN find_dir_from_inode(fs', 1).v = {<<97>>, <<98>>}]_vars

\* C21: a write that replies success at an offset beyond the old size of a
\* regular file leaves the file ending where the written bytes end, the
\* bytes of the gap between the old size and the offset reading as zero
\* and the written bytes reading as the data, whatever the blocks held
\* before.
C21_GapReadsZero ==
    [][(/\ last'.req.op = "write" /\ last'.r.ok
        /\ last'.req.ino \in RegularFiles \cap Created
        /\ last'.old >= 0 /\ last'.req.offset > last'.old)
       => \A inode \in {find_inode(fs', last'.req.ino)} :
             /\ inode.ok
             /\ inode.v.size = last'.req.offset + Len(last'.req.data)
             /\ \A o \in last'.old..(last'.req.offset - 1) :
                   /\ find_data_block(fs', inode.v, o, TRUE).r.ok
                   /\ byte_at(fs', inode.v, o) = 0
             /\ \A k \in 1..Len(last'.req.data) :
                   /\ find_data_block(fs', inode.v,
                                      last'.req.offset + k - 1, TRUE).r.ok
                   /\ byte_at(fs', inode.v, last'.req.offset + k - 1)
                         = last'.req.data[k]]_vars

\* ------------------------------------------------------------------------
\* The namespace requests on an image of two groups whose first group has
\* no free inode left: the state after a mount and one create for each
\* inode of the first group but the root, each on a parent that is no
\* directory, which leaves the inode it allocated set in the bitmap and
\* writes nothing.
InitFull ==
    /\ fs = [create_root(fresh_image(BlockSize, 2)).s EXCEPT
                !.groups[1].inode_bitmap = 1..(8 * BlockSize),
                !.groups[1].next_inode = 0,
                !.sb.free_inodes = 8 * BlockSize]
    /\ status = "mounted"
    /\ last = Last(Request("create", 2, <<97>>, 0, <<>>, 0), Err("EIO"), -1,
                   8 * BlockSize, <<>>)
    /\ links = [l \in {} |-> 0]
    /\ written = [i \in {} |-> NoBytes]
    /\ ops = MaxOps
    /\ srt = NoSort

SpecFull == InitFull /\ [][NextDir]_vars

\* C23: in an image of two groups, an inode that create or mkdir on a
\* directory allocated from the second group (its index is greater than
\* data_blocks_per_group) is found by find_inode, and an unlink of it that
\* replies success clears the bit of that inode in the inode bitmap of the
\* second group and no other bit.
C23_SecondGroupInodes ==
    [][/\ (/\ last'.req.op \in {"create", "mkdir"}
           /\ last'.index > fs.sb.data_blocks_per_group
           /\ last'.req.ino # 0
           /\ find_dir_from_inode(fs, last'.req.ino).ok)
          => find_inode(fs', last'.index).ok
       /\ (/\ last'.req.op = "unlink" /\ last'.r.ok
           /\ last'.index > fs.sb.data_blocks_per_group)
          => /\ fs'.groups[1].inode_bitmap = fs.groups[1].inode_bitmap
             /\ fs'.groups[2].inode_bitmap
                   = fs.groups[2].inode_bitmap
                     \ {last'.index - fs.sb.data_blocks_per_group}]_vars

\* C24: every read ends with a reply.  For every inode that create and
\* write made and every offset and size asked, the read loop leaves after
\* finitely many iterations and the reply is data or an errno.
C24_ReadTerminates ==
    (last.req.op = "read" /\ last.req.ino \in Created)
        => (last.r.ok \/ last.r.err \notin {"HANG", "PANIC"})

\* C25: a mkdir on a parent that is a directory replies success whenever
\* an inode and a data block are free, whichever indexes are allocated for
\* the new directory, and then changes the stored metadata of no inode but
\* the new one and the parent.
C25_MkdirSucceeds ==
    [][(/\ last'.req.op = "mkdir" /\ last'.req.ino # 0
        /\ find_dir_from_inode(fs, last'.req.ino).ok
        /\ fs.sb.free_inodes > 0 /\ fs.sb.free_blocks > 0)
       => /\ last'.r.ok
          /\ \A j \in ((1..fs.sb.inode_count) \ FreeInodes)
                         \ {last'.req.ino, last'.index} :
                stored_inode(fs', inode_seek_position(fs', j))
                    = stored_inode(fs, inode_seek_position(fs, j))]_vars


\* ------------------------------------------------------------------------
\* Block mapping of one file over every range of logical block indexes:
\* creates, writes of one byte at the start of a block, and unlinks that
\* free the blocks for the next file.
MaxMapOps == 6

\* first and last index of the direct, single-indirect and
\* double-indirect ranges (first two and last outer slots), and the first
\* index past them
MapIndices == {0, 11, 12, 19, 20, 27, 28, 83, 84}

InitMap ==
    /\ fs = create_root(fresh_image(BlockSize, ImageGroups)).s
    /\ status = "mounted"
    /\ last = Last(Request("mount", 0, <<>>, 0, <<>>, 0), ReplyOk(Ok(TRUE)), -1, 0, <<>>)
    /\ links = [l \in {} |-> 0]
    /\ written = [i \in {} |-> NoBytes]
    /\ ops = MaxMapOps
    /\ srt = NoSort

NextMap ==
    \/ \E parent \in {1, 2}, name \in Names : Create(parent, name)
    \/ \E index \in MapIndices : Write(3, index * BlockSize, <<7>>)
    \/ \E name \in Names : Unlink(1, name)

SpecMap == InitMap /\ [][NextMap]_vars

\* the block sizes of the format: the positions of blocks and slots are
\* computed with the masks & (n - 1), which are the remainders by n for
\* the powers of two alone
PowerOfTwo(n) == \E k \in 0..30 : n = 2 ^ k

\* the first logical index past the double-indirect range
MapEnd(P) == DIRECT_POINTERS + P + P * P

\* the indexes of the data blocks of the image
Pointers == 1..(ImageGroups * 8 * BlockSize)

\* The pointer stored for logical block li of the inode in the slot the
\* layout names (Ok(0): none; an error: the slot cannot be read):
\* direct_blocks[li], slot li - 12 of the indirect block, or the inner slot
\* of the indirect block held in the outer slot of the double-indirect
\* block.
slot_pointer(s, inode, li) ==
    LET P == s.sb.block_size \div 4
        inner(block) ==
            IF ~block.ok \/ block.v = 0 THEN block
            ELSE read_u32(s, (li - DIRECT_POINTERS - P) % P, block.v)
    IN IF li < DIRECT_POINTERS THEN Ok(inode.direct_blocks[li + 1])
       ELSE IF li < DIRECT_POINTERS + P
       THEN IF inode.indirect_block = 0 THEN Ok(0)
            ELSE read_u32(s, li - DIRECT_POINTERS, inode.indirect_block)
       ELSE IF inode.double_indirect_block = 0 THEN Ok(0)
            ELSE inner(read_u32(s, (li - DIRECT_POINTERS - P) \div P,
                                inode.double_indirect_block))

\* C26: the block map.  After a write to a created file, the read-mode
\* mapping of every logical index li is the pointer in the slot of the
\* layout (direct_blocks[li] below 12, slot li - 12 of the indirect block
\* below 12 + P, inner slot (li - 12 - P) mod P of the indirect block in
\* outer slot (li - 12 - P) div P of the double-indirect block below
\* 12 + P + P * P) and ENOSPC from there on; the write stored a pointer in
\* the slot of its own index and left the slot of every other index as it
\* was.  The block size is a power of two, as the format requires.
C26_BlockMapping ==
    [][(/\ last'.req.op = "write" /\ last'.req.ino \in Created
        /\ PowerOfTwo(fs.sb.block_size)
        /\ find_inode(fs, last'.req.ino).ok)
       => \A P \in {BlockSize \div 4}, old \in {find_inode(fs, last'.req.ino)},
             new \in {find_inode(fs', last'.req.ino)},
             li \in {last'.req.offset \div BlockSize} :
             /\ new.ok
             /\ li >= MapEnd(P)
                   => ~last'.r.ok /\ last'.r.err = "ENOSPC"
             /\ (li < MapEnd(P) /\ last'.r.ok)
                   => \E p \in {slot_pointer(fs', new.v, li)} : p.ok /\ p.v # 0
             /\ \A lj \in MapIndices :
                   \E p \in {slot_pointer(fs', new.v, lj)} :
                      find_data_block(fs', new.v, lj * BlockSize, TRUE).r
                          = IF lj >= MapEnd(P) THEN Err("ENOSPC")
                            ELSE IF ~p.ok THEN Err("EIO")
                            ELSE IF p.v = 0 THEN Err("EINVAL")
                            ELSE Ok(<<p.v, BlockSize>>)
             /\ \A lj \in {l \in MapIndices : l < MapEnd(P)} \ {li} :
                   slot_pointer(fs', new.v, lj) = slot_pointer(fs, old.v, lj)]_vars

\* C26 happens: a file holds blocks in the direct, the single-indirect and
\* the double-indirect range at once, the last write in the double range.
C26_Witness ==
    /\ last.req.op = "write" /\ last.r.ok /\ last.req.offset \div BlockSize >= 20
    /\ last.req.ino \in Created /\ PowerOfTwo(fs.sb.block_size)
    /\ \E inode \in {find_inode(fs, last.req.ino)} :
          /\ inode.ok
          /\ \E li \in {0, 11}, p \in Pointers : slot_pointer(fs, inode.v, li) = Ok(p)
          /\ \E li \in {12, 19}, p \in Pointers : slot_pointer(fs, inode.v, li) = Ok(p)

\* The blocks a write at logical index li of the inode finds missing: the
\* data block and the indirect, double-indirect and inner indirect blocks
\* on the way to its slot.
missing_blocks(s, inode, li) ==
    LET P == s.sb.block_size \div 4
        outer == IF inode.double_indirect_block = 0 THEN Ok(0)
                 ELSE read_u32(s, (li - DIRECT_POINTERS - P) \div P,
                               inode.double_indirect_block)
    IN IF slot_pointer(s, inode, li) # Ok(0) THEN 0
       ELSE IF li < DIRECT_POINTERS THEN 1
       ELSE IF li < DIRECT_POINTERS + P
       THEN IF inode.indirect_block = 0 THEN 2 ELSE 1
       ELSE IF inode.double_indirect_block = 0 THEN 3
       ELSE IF outer = Ok(0) THEN 2 ELSE 1

\* The block holding the slot of logical index li (0: the inode itself),
\* and the index of the slot in it.
slot_block(s, inode, li) ==
    LET P == s.sb.block_size \div 4
    IN IF li < DIRECT_POINTERS THEN 0
       ELSE IF li < DIRECT_POINTERS + P THEN inode.indirect_block
       ELSE read_u32(s, (li - DIRECT_POINTERS - P) \div P,
                     inode.double_indirect_block).v

slot_index(s, li) ==
    LET P == s.sb.block_size \div 4
    IN IF li < DIRECT_POINTERS + P THEN li - DIRECT_POINTERS
       ELSE (li - DIRECT_POINTERS - P) % P

\* C27: holes.  In read mode a zero pointer at any level replies EINVAL
\* and changes neither the image nor the inode.  A write whose slot (or a
\* block on the way to it) is missing allocates the missing blocks and no
\* other, a new indirect, double-indirect or inner indirect block holds
\* zero pointers in every slot but the one just linked, and the read-mode
\* mapping of the offset is then the data block just allocated.  The block
\* size is a power of two, as the format requires.
C27_Holes ==
    [][(/\ last'.req.op = "write" /\ last'.req.ino \in Created
        /\ PowerOfTwo(fs.sb.block_size)
        /\ find_inode(fs, last'.req.ino).ok
        /\ last'.req.offset \div BlockSize < MapEnd(BlockSize \div 4))
       => \A P \in {BlockSize \div 4}, old \in {find_inode(fs, last'.req.ino).v},
             new \in {find_inode(fs', last'.req.ino)},
             li \in {last'.req.offset \div BlockSize} :
             \A missing \in {missing_blocks(fs, old, li)} :
                /\ new.ok
                /\ \A lj \in {l \in MapIndices : l < MapEnd(P)} :
                      slot_pointer(fs', new.v, lj) = Ok(0)
                          => find_data_block(fs', new.v, lj * BlockSize, TRUE)
                                 = [s |-> fs', inode |-> new.v, r |-> Err("EINVAL")]
                /\ missing > 0
                      => /\ last'.r.ok
                         /\ FreeBlocks' \subseteq FreeBlocks
                         /\ Cardinality(FreeBlocks \ FreeBlocks') = missing
                         /\ \E b \in FreeBlocks :
                               /\ slot_pointer(fs', new.v, li) = Ok(b)
                               /\ find_data_block(fs', new.v, li * BlockSize, TRUE)
                                      = [s |-> fs', inode |-> new.v,
                                         r |-> Ok(<<b, BlockSize>>)]
                /\ missing > 1
                      => \A k \in (0..(P - 1)) \ {slot_index(fs', li)} :
                            read_u32(fs', k, slot_block(fs', new.v, li)) = Ok(0)
                /\ missing > 2
                      => \A k \in (0..(P - 1)) \ {(li - DIRECT_POINTERS - P) \div P} :
                            read_u32(fs', k, new.v.double_indirect_block) = Ok(0)]_vars

\* C27 happens: a write in the double-indirect range of a file without a
\* double-indirect block allocates three blocks.
C27_Witness ==
    /\ last.req.op = "write" /\ last.r.ok /\ last.req.ino \in Created
    /\ PowerOfTwo(fs.sb.block_size)
    /\ last.req.offset \div BlockSize >= 20
    /\ \E inode \in {find_inode(fs, last.req.ino)} :
          /\ inode.ok
          /\ inode.v.indirect_block = 0
          /\ \A li \in 0..11 : inode.v.direct_blocks[li + 1] = 0
          /\ inode.v.double_indirect_block # 0
          /\ byte_at(fs, inode.v, last.req.offset) = 7
    /\ last.chunks # <<>>

\* C28: a read replies no byte at or beyond the end of the file: the
\* reply to read(ino, offset, n) holds at most max(0, size - offset) bytes
\* of a file of that size.
C28_ReadWithinSize ==
    (last.req.op = "read" /\ last.r.ok /\ last.req.ino \in Created)
        => Len(last.r.data) <= Max(0, last.old - last.req.offset)

\* The data blocks an inode references, one element per reference: its
\* direct blocks, its indirect block and the pointers in it, its
\* double-indirect block, the inner indirect blocks and their pointers
\* (pointers in blocks that cannot be read are left out).
referenced_blocks(s, inode) ==
    LET pointers(r) == IF r.ok THEN r.v ELSE <<>>
        through(block) == IF block = 0 THEN <<>>
                          ELSE <<block>> \o pointers(read_indirect_block(s, block))
        leaves(inner) == inner \o pointers(read_leaves(s, Tail(inner)))
    IN direct_blocks(inode) \o through(inode.indirect_block)
       \o (IF inode.double_indirect_block = 0 THEN <<>>
           ELSE leaves(through(inode.double_indirect_block)))

\* C29: block exclusivity.  Every data block that an allocated inode
\* references, directly or through its indirect blocks, has its bit set in
\* the data bitmap, and is referenced once: by one inode, in one place.
C29_BlockExclusivity ==
    \A refs \in {[i \in {j \in AllocatedInodes : find_inode(fs, j).ok} |->
                     referenced_blocks(fs, find_inode(fs, i).v)]} :
       \A i \in DOMAIN refs : \A k \in DOMAIN refs[i] :
          /\ refs[i][k] \in Pointers \ FreeBlocks
          /\ \A j \in DOMAIN refs : \A l \in DOMAIN refs[j] :
                (i # j \/ k # l) => refs[i][k] # refs[j][l]

\* The entries of every directory find_dir_from_inode reads from an
\* allocated inode: <<directory, name, index>>.
directory_entries(s, inodes) ==
    UNION {{<<d, n, find_dir_from_inode(s, d).v[n]>> :
                n \in DOMAIN find_dir_from_inode(s, d).v} :
           d \in {a \in inodes : find_dir_from_inode(s, a).ok}}

\* C30: the namespace is a tree over the allocated inodes.  After every
\* create, mkdir and unlink, replied with success or with an error, each
\* allocated inode but the root is the target of exactly one directory
\* entry, and each directory entry names an allocated inode.
C30_NamespaceTree ==
    (Running /\ last.req.op \in {"create", "mkdir", "unlink"})
        => \A inodes \in {AllocatedInodes} :
              \A entries \in {directory_entries(fs, inodes)} :
                 /\ \A i \in inodes \ {ROOT_INODE} :
                       Cardinality({e \in entries : e[3] = i}) = 1
                 /\ \A e \in entries : e[3] \in inodes


\* ------------------------------------------------------------------------
\* The records as bincode writes them, byte for byte, and their CRC-32
\* (mod.rs calculate_checksum, types.rs serialize / deserialize_from).
\* A u64 and the checksum exceed the integers of the checker: they are
\* kept as their base-256 digits, least significant first, the form
\* bincode writes; the narrower fields are naturals.

\* The CRC register is the set of its one bits (bit 0 the least
\* significant); xor is the symmetric difference.
Xor(A, B) == (A \ B) \cup (B \ A)

\* 0xEDB88320, the reflected polynomial of CRC-32.
CRC_POLY == {5, 8, 9, 15, 19, 20, 21, 23, 24, 26, 27, 29, 30, 31}

\* One bit of input taken in: shift right, xor the polynomial in when a
\* one was shifted out.
crc_shift(reg) ==
    IF 0 \in reg THEN Xor({i - 1 : i \in reg \ {0}}, CRC_POLY)
    ELSE {i - 1 : i \in reg \ {0}}

crc_byte(reg, byte) ==
    crc_shift(crc_shift(crc_shift(crc_shift(crc_shift(crc_shift(crc_shift(
        crc_shift(Xor(reg, {i \in 0..7 : (byte \div 2 ^ i) % 2 = 1})))))))))

\* Hasher::update with the bytes from..to, one after the other: the first
\* half, then the second (a register has no bit beyond bit 31).
RECURSIVE crc_update(_, _, _, _)
crc_update(reg, bytes, from, to) ==
    IF from > to \/ reg \ (0..31) # {} THEN reg
    ELSE IF from = to THEN crc_byte(reg, bytes[from])
    ELSE crc_update(crc_update(reg, bytes, from, (from + to) \div 2),
                    bytes, (from + to) \div 2 + 1, to)

\* u32::to_le_bytes of a register.
to_le_bytes(reg) ==
    LET bit(k, i) == IF 8 * k + i \in reg THEN 2 ^ i ELSE 0
        byte(k) == bit(k, 0) + bit(k, 1) + bit(k, 2) + bit(k, 3)
                   + bit(k, 4) + bit(k, 5) + bit(k, 6) + bit(k, 7)
    IN <<byte(0), byte(1), byte(2), byte(3)>>

\* crc32fast::Hasher::new, update, finalize: the register starts as all
\* ones and is complemented at the end.
crc32(bytes) == to_le_bytes((0..31) \ crc_update(0..31, bytes, 1, Len(bytes)))

FERRIX_MAGIC == 6578810

ZeroChecksum == <<0, 0, 0, 0>>

\* The digits of a u64 and the natural of a digit string.
U64(n) == LE(n, 8)

RECURSIVE Num(_)
Num(digits) == IF digits = <<>> THEN 0 ELSE Head(digits) + 256 * Num(Tail(digits))

\* Superblock::new at time created_at, with the two optional timestamps
\* (<<>> is None, <<t>> is Some(t)) as update_modified_at and
\* update_last_mounted_at leave them.
Superblock_at(block_size, groups, uid, gid, created_at, modified_at, last_mounted_at) ==
    [kind |-> "Superblock", magic |-> FERRIX_MAGIC, block_size |-> block_size,
     created_at |-> created_at, modified_at |-> modified_at,
     last_mounted_at |-> last_mounted_at,
     block_count |-> block_size * 8 * groups, inode_count |-> block_size * 8 * groups,
     free_blocks |-> block_size * 8 * groups, free_inodes |-> block_size * 8 * groups,
     groups |-> groups, data_blocks_per_group |-> block_size * 8,
     uid |-> uid, gid |-> gid, checksum |-> ZeroChecksum]

\* A SystemTime: seconds (u64) and nanoseconds (u32) since the epoch.
SystemTime(secs, nanos) == [secs |-> U64(secs), nanos |-> nanos]

\* Inode::new at time now, then the fields a file or a directory gets.
Inode_at(block_size, now, mode, size, block) ==
    [kind |-> "Inode", mode |-> mode, hard_links |-> 1, user_id |-> 0, group_id |-> 0,
     block_count |-> 0, size |-> size,
     created_at |-> now, accessed_at |-> now, modified_at |-> now, changed_at |-> now,
     direct_blocks |-> <<block>> \o Repeat(0, DIRECT_POINTERS - 1),
     indirect_block |-> 0, double_indirect_block |-> 0,
     checksum |-> ZeroChecksum, block_size |-> block_size]

Directory_of(entries) ==
    [kind |-> "Directory", entries |-> entries, checksum |-> ZeroChecksum]

\* bincode::serialize of each struct: the fields in the order of the
\* declaration, integers little-endian at their width, an Option as a tag
\* byte and the value, a SystemTime as seconds and nanoseconds, the array
\* without a length.
bincode_option(o) == IF o = <<>> THEN <<0>> ELSE <<1>> \o o[1]

bincode_time(t) == t.secs \o LE(t.nanos, 4)

RECURSIVE bincode_array(_)
bincode_array(blocks) ==
    IF blocks = <<>> THEN <<>> ELSE LE(Head(blocks), 4) \o bincode_array(Tail(blocks))

bincode_serialize(v) ==
    IF v.kind = "Superblock"
    THEN LE(v.magic, 4) \o LE(v.block_size, 4) \o v.created_at
         \o bincode_option(v.modified_at) \o bincode_option(v.last_mounted_at)
         \o LE(v.block_count, 4) \o LE(v.inode_count, 4) \o LE(v.free_blocks, 4)
         \o LE(v.free_inodes, 4) \o LE(v.groups, 4) \o LE(v.data_blocks_per_group, 4)
         \o LE(v.uid, 4) \o LE(v.gid, 4) \o v.checksum
    ELSE IF v.kind = "Inode"
    THEN LE(v.mode, 4) \o LE(v.hard_links, 2) \o LE(v.user_id, 4) \o LE(v.group_id, 4)
         \o LE(v.block_count, 4) \o v.size
         \o bincode_time(v.created_at) \o bincode_time(v.accessed_at)
         \o bincode_time(v.modified_at) \o bincode_time(v.changed_at)
         \o bincode_array(v.direct_blocks)
         \o LE(v.indirect_block, 4) \o LE(v.double_indirect_block, 4)
         \o v.checksum \o LE(v.block_size, 4)
    ELSE dir_bytes(v.entries) \o v.checksum

\* bincode::deserialize_from: the fields read back one after the other;
\* an error when the bytes end early, an Option tag is neither 0 nor 1, or
\* an OsString is not of the Unix variant.
take(bytes, pos, n) == SubSeq(bytes, pos + 1, pos + n)

\* A digit string plus a carry, the same number of digits (<<>> on overflow).
RECURSIVE add_carry(_, _)
add_carry(digits, c) ==
    IF digits = <<>> THEN <<>>
    ELSE <<(Head(digits) + c) % 256>>
         \o add_carry(Tail(digits), (Head(digits) + c) \div 256)

\* Duration::new(secs, nanos): whole seconds of the nanoseconds are carried.
time_at(bytes, pos) ==
    LET carried(secs, nanos) ==
            [secs |-> add_carry(secs, nanos \div 1000000000),
             nanos |-> nanos % 1000000000]
    IN carried(take(bytes, pos, 8), Num(take(bytes, pos + 8, 4)))

option_at(bytes, pos) ==
    IF pos + 1 > Len(bytes) THEN [ok |-> FALSE, v |-> <<>>, next |-> pos]
    ELSE IF bytes[pos + 1] = 0 THEN [ok |-> TRUE, v |-> <<>>, next |-> pos + 1]
    ELSE IF bytes[pos + 1] = 1 /\ pos + 9 <= Len(bytes)
    THEN [ok |-> TRUE, v |-> <<take(bytes, pos + 1, 8)>>, next |-> pos + 9]
    ELSE [ok |-> FALSE, v |-> <<>>, next |-> pos]

superblock_from(bytes) ==
    LET u32(pos) == Num(take(bytes, pos, 4))
        rest(m, l, pos) ==
            IF pos + 36 > Len(bytes) THEN Err("bincode")
            ELSE Ok([kind |-> "Superblock", magic |-> u32(0), block_size |-> u32(4),
                     created_at |-> take(bytes, 8, 8),
                     modified_at |-> m, last_mounted_at |-> l,
                     block_count |-> u32(pos), inode_count |-> u32(pos + 4),
                     free_blocks |-> u32(pos + 8), free_inodes |-> u32(pos + 12),
                     groups |-> u32(pos + 16),
                     data_blocks_per_group |-> u32(pos + 20),
                     uid |-> u32(pos + 24), gid |-> u32(pos + 28),
                     checksum |-> take(bytes, pos + 32, 4)])
        mounted(m, l) == IF ~l.ok THEN Err("bincode") ELSE rest(m.v, l.v, l.next)
        modified(m) == IF ~m.ok THEN Err("bincode")
                       ELSE mounted(m, option_at(bytes, m.next))
    IN IF Len(bytes) < 16 THEN Err("bincode") ELSE modified(option_at(bytes, 16))

inode_from(bytes) ==
    LET u32(pos) == Num(take(bytes, pos, 4))
    IN IF Len(bytes) < 138 THEN Err("bincode")
       ELSE Ok([kind |-> "Inode", mode |-> u32(0),
                hard_links |-> Num(take(bytes, 4, 2)),
                user_id |-> u32(6), group_id |-> u32(10), block_count |-> u32(14),
                size |-> take(bytes, 18, 8),
                created_at |-> time_at(bytes, 26), accessed_at |-> time_at(bytes, 38),
                modified_at |-> time_at(bytes, 50), changed_at |-> time_at(bytes, 62),
                direct_blocks |-> [i \in 1..DIRECT_POINTERS |-> u32(70 + 4 * i)],
                indirect_block |-> u32(122), double_indirect_block |-> u32(126),
                checksum |-> take(bytes, 130, 4), block_size |-> u32(134)])

\* The entries of a BTreeMap<OsString, u32> of n entries from pos on: the
\* map read so far and the position after the last entry.
RECURSIVE entries_from(_, _, _, _)
entries_from(bytes, pos, n, entries) ==
    LET insert(name, index) ==
            [k \in DOMAIN entries \cup {name} |->
                IF k = name THEN index ELSE entries[k]]
        named(len) ==
            IF pos + 16 + len > Len(bytes) THEN [ok |-> FALSE, v |-> entries, next |-> pos]
            ELSE entries_from(bytes, pos + 16 + len, n - 1,
                              insert(take(bytes, pos + 12, len),
                                     Num(take(bytes, pos + 12 + len, 4))))
    IN IF n = 0 THEN [ok |-> TRUE, v |-> entries, next |-> pos]
       ELSE IF pos + 12 > Len(bytes) \/ Num(take(bytes, pos, 4)) # 0
       THEN [ok |-> FALSE, v |-> entries, next |-> pos]
       ELSE named(Num(take(bytes, pos + 4, 8)))

directory_from(bytes) ==
    LET checksummed(e) ==
            IF ~e.ok \/ e.next + 4 > Len(bytes) THEN Err("bincode")
            ELSE Ok([kind |-> "Directory", entries |-> e.v,
                     checksum |-> take(bytes, e.next, 4)])
    IN IF Len(bytes) < 8 THEN Err("bincode")
       ELSE checksummed(entries_from(bytes, 8, Num(take(bytes, 0, 8)), NoEntries))

bincode_deserialize_from(kind, bytes) ==
    IF kind = "Superblock" THEN superblock_from(bytes)
    ELSE IF kind = "Inode" THEN inode_from(bytes)
    ELSE directory_from(bytes)

\* calculate_checksum (mod.rs): the CRC-32 of the bincode bytes.
calculate_checksum(v) == crc32(bincode_serialize(v))

\* checksum(): the field zeroed, then set to the checksum of the record.
checksum(v) ==
    [v EXCEPT !.checksum = calculate_checksum([v EXCEPT !.checksum = ZeroChecksum])]

\* serialize / serialize_into: the checksum recomputed, then the bytes.
serialize(v) == bincode_serialize(checksum(v))

\* A deserialize_from that takes the record as it is read.
deserialize_from_unverified(kind, bytes) == bincode_deserialize_from(kind, bytes)

\* deserialize_from: the record read, then verify_checksum: the stored
\* checksum against the checksum of the record with the field zeroed.
deserialize_from(kind, bytes) ==
    LET verified(v) ==
            IF ~v.ok THEN v
            ELSE IF v.v.checksum # calculate_checksum([v.v EXCEPT !.checksum = ZeroChecksum])
            THEN Err("checksum verification failed")
            ELSE v
    IN verified(bincode_deserialize_from(kind, bytes))


\* ------------------------------------------------------------------------
\* A record serialised, its stored fields changed or not, and read back.
CodecTime == 1700000000

\* the xor of two bytes
XorByte(x, y) ==
    LET bit(i) == ((((x \div 2 ^ i) % 2) + ((y \div 2 ^ i) % 2)) % 2) * 2 ^ i
    IN bit(0) + bit(1) + bit(2) + bit(3) + bit(4) + bit(5) + bit(6) + bit(7)

\* The digits or name with the 33 bits of the CRC-32 generator polynomial
\* (x^32 + x^26 + ... + 1, in the order the CRC takes the bits in) xored
\* into its first five bytes.
Burst33(digits) ==
    [i \in 1..Len(digits) |->
        IF i <= 5 THEN XorByte(digits[i], <<65, 6, 113, 219, 1>>[i]) ELSE digits[i]]

CodecNames == {<<97>>, <<98>>, <<97, 98, 99, 100, 101>>, Burst33(<<97, 98, 99, 100, 101>>)}

CodecEntries ==
    {NoEntries} \cup {[n \in {name} |-> i] : name \in CodecNames, i \in {2, 3}}
    \cup {[n \in {<<97>>, <<98>>} |-> IF n = <<97>> THEN 2 ELSE 3]}

Superblocks ==
    {Superblock_at(bs, 1, 0, 0, U64(CodecTime), m, l) :
        bs \in {BlockSize, 4096},
        m \in {<<>>, <<U64(CodecTime + 1)>>}, l \in {<<>>, <<U64(CodecTime + 2)>>}}

Inodes ==
    {Inode_at(BlockSize, SystemTime(CodecTime, 5), mode, U64(size), block) :
        mode \in {S_IFREG + 420, S_IFDIR + 511}, size \in {0, 4}, block \in {0, 2}}

Directories == {Directory_of(e) : e \in {NoEntries} \cup
                   {[n \in {name} |-> 2] : name \in {<<97>>, <<97, 98, 99, 100, 101>>}}}

\* The records that differ from v in one field.
Changes(v) ==
    IF v.kind = "Superblock"
    THEN ({[v EXCEPT !.block_size = x] : x \in {BlockSize, 4096}}
          \cup {[v EXCEPT !.free_blocks = x] : x \in {v.block_count, v.block_count - 1}}
          \cup {[v EXCEPT !.created_at = x] :
                   x \in {U64(CodecTime + 1), Burst33(U64(CodecTime))}}
          \cup {[v EXCEPT !.modified_at = x] : x \in {<<>>, <<U64(CodecTime + 1)>>}}
          \cup {[v EXCEPT !.gid = x] : x \in {0, 1000}}
          \cup {[v EXCEPT !.checksum = x] : x \in {ZeroChecksum, <<1, 0, 0, 0>>}}) \ {v}
    ELSE IF v.kind = "Inode"
    THEN ({[v EXCEPT !.mode = x] : x \in {S_IFREG + 420, S_IFDIR + 511}}
          \cup {[v EXCEPT !.hard_links = x] : x \in {1, 2}}
          \cup {[v EXCEPT !.size = x] :
                   x \in {U64(0), U64(4), Burst33(U64(0)), Burst33(U64(4))}}
          \cup {[v EXCEPT !.modified_at = x] :
                   x \in {SystemTime(CodecTime, 5), SystemTime(CodecTime, 6),
                          SystemTime(CodecTime + 1, 5)}}
          \cup {[v EXCEPT !.direct_blocks[1] = x] : x \in {0, 2, 3}}
          \cup {[v EXCEPT !.double_indirect_block = x] : x \in {0, 7}}
          \cup {[v EXCEPT !.block_size = x] : x \in {BlockSize, 4096}}
          \cup {[v EXCEPT !.checksum = x] : x \in {ZeroChecksum, <<1, 0, 0, 0>>}}) \ {v}
    ELSE ({[v EXCEPT !.entries = x] : x \in CodecEntries}
          \cup {[v EXCEPT !.checksum = x] : x \in {ZeroChecksum, <<1, 0, 0, 0>>}}) \ {v}

Codec(op, value, stored, original, r) ==
    [op |-> op, value |-> value, stored |-> stored, original |-> original, r |-> r]

InitCodec ==
    /\ fs = fresh_image(BlockSize, 0)
    /\ status = "absent"
    /\ \/ \E v \in Superblocks : last = Codec("new", v, <<>>, <<>>, Ok(TRUE))
       \/ \E v \in Inodes : last = Codec("new", v, <<>>, <<>>, Ok(TRUE))
       \/ \E v \in Directories : last = Codec("new", v, <<>>, <<>>, Ok(TRUE))
    /\ links = [l \in {} |-> 0]
    /\ written = [i \in {} |-> NoBytes]
    /\ ops = 0
    /\ srt = NoSort

\* serialize: the value gets its checksum and its bytes are stored.
Serialize ==
    /\ last.op = "new"
    /\ \E bytes \in {serialize(last.value)} :
          last' = Codec("serialize", checksum(last.value), bytes, bytes, Ok(TRUE))
    /\ UNCHANGED <<fs, status, links, written, ops, srt>>

\* One field of the stored record is changed; the stored checksum stays
\* (unless it is the field changed).
ChangeField ==
    /\ last.op = "serialize"
    /\ \E w \in Changes(last.value) :
          last' = [last EXCEPT !.op = "change", !.stored = bincode_serialize(w)]
    /\ UNCHANGED <<fs, status, links, written, ops, srt>>

DeserializeFrom ==
    /\ last.op \in {"serialize", "change"}
    /\ last' = [last EXCEPT !.op = "deserialize_from",
                            !.r = deserialize_from(last.value.kind, last.stored)]
    /\ UNCHANGED <<fs, status, links, written, ops, srt>>

NextCodec == Serialize \/ ChangeField \/ DeserializeFrom

SpecCodec == InitCodec /\ [][NextCodec]_vars

\* The stored bytes differ from the bytes serialised, within n consecutive
\* bytes of a record of the same length.
ChangedWithin(n) ==
    /\ Len(last.stored) = Len(last.original)
    /\ last.stored # last.original
    /\ \A i, j \in {k \in 1..Len(last.stored) : last.stored[k] # last.original[k]} :
          j - i < n

GroupBits == 3

GroupCall(op, index, group, r) == [op |-> op, index |-> index, group |-> group, r |-> r]

InitGroup ==
    /\ fs = fresh_image(BlockSize, 0)
    /\ status = "absent"
    /\ \E data_bitmap \in SUBSET (1..GroupBits), inode_bitmap \in SUBSET (1..GroupBits) :
          last = GroupCall("new", 0, Group_new(data_bitmap, inode_bitmap, GroupBits), 0)
    /\ links = [l \in {} |-> 0]
    /\ written = [i \in {} |-> NoBytes]
    /\ ops = 0
    /\ srt = NoSort

GroupAllocateInode ==
    /\ last' = GroupCall("allocate_inode", 0, Group_allocate_inode(last.group),
                         last.group.next_inode)
    /\ UNCHANGED <<fs, status, links, written, ops, srt>>

GroupAllocateDataBlock ==
    /\ last' = GroupCall("allocate_data_block", 0, Group_allocate_data_block(last.group),
                         last.group.next_data_block)
    /\ UNCHANGED <<fs, status, links, written, ops, srt>>

GroupReleaseInode(index) ==
    /\ in_bitmap(last.group, index)
    /\ last' = GroupCall("release_inode", index, Group_release_inode(last.group, index), 0)
    /\ UNCHANGED <<fs, status, links, written, ops, srt>>

GroupReleaseDataBlock(index) ==
    /\ in_bitmap(last.group, index)
    /\ last' = GroupCall("release_data_block", index,
                         Group_release_data_block(last.group, index), 0)
    /\ UNCHANGED <<fs, status, links, written, ops, srt>>

NextGroup ==
    \/ GroupAllocateInode
    \/ GroupAllocateDataBlock
    \/ \E index \in 1..GroupBits : GroupReleaseInode(index)
    \/ \E index \in 1..GroupBits : GroupReleaseDataBlock(index)

SpecGroup == InitGroup /\ [][NextGroup]_vars

\* the smallest 1-based index whose bit is 0 (0: every bit is 1)
first_zero(bitmap, len) ==
    IF \A i \in 1..len : i \in bitmap THEN 0
    ELSE CHOOSE i \in 1..len : i \notin bitmap /\ \A j \in 1..(i - 1) : j \in bitmap

HintsExact(g) ==
    /\ g.next_inode = first_zero(g.inode_bitmap, g.len)
    /\ g.next_data_block = first_zero(g.data_bitmap, g.len)

\* C31: the hints of a Group.  Before and after every call next_inode and
\* next_data_block are the smallest 1-based index whose bit is 0, absent
\* exactly when every bit is 1; allocate returns that index, makes
\* has(index) true and changes no other bit of either bitmap (a full
\* group returns none and stays as it is); release(i) clears bit i - 1
\* alone.
C31_GroupHints ==
    [][\A g \in {last.group}, h \in {last'.group} :
          /\ HintsExact(g) /\ HintsExact(h)
          /\ h.len = g.len
          /\ last'.op = "allocate_inode"
                => /\ last'.r = first_zero(g.inode_bitmap, g.len)
                   /\ last'.r # 0 => has_inode(h, last'.r)
                   /\ h.inode_bitmap \ {last'.r} = g.inode_bitmap
                   /\ h.data_bitmap = g.data_bitmap
          /\ last'.op = "allocate_data_block"
                => /\ last'.r = first_zero(g.data_bitmap, g.len)
                   /\ last'.r # 0 => has_data_block(h, last'.r)
                   /\ h.data_bitmap \ {last'.r} = g.data_bitmap
                   /\ h.inode_bitmap = g.inode_bitmap
          /\ last'.op = "release_inode"
                => /\ h.inode_bitmap = g.inode_bitmap \ {last'.index}
                   /\ h.data_bitmap = g.data_bitmap
          /\ last'.op = "release_data_block"
                => /\ h.data_bitmap = g.data_bitmap \ {last'.index}
                   /\ h.inode_bitmap = g.inode_bitmap]_vars

\* C31 happens: a block other than the first is released and is then the
\* only free block, so the hint is that block; the inode bitmap is full and
\* its hint absent.
C31_Witness ==
    /\ last.op = "release_data_block"
    /\ last.index > 1
    /\ last.group.data_bitmap = (1..GroupBits) \ {last.index}
    /\ last.group.next_data_block = last.index
    /\ last.group.inode_bitmap = 1..GroupBits
    /\ last.group.next_inode = 0

\* ------------------------------------------------------------------------
\* ExtSorter::parallel_sort over an ExtArr<Number, SyncRW<Cursor<Vec<u8>>>>:
\* every clone of the array is the same channel srt.ext_arr behind the
\* mutex srt.chan, and the buffer is behind the mutex srt.buf (0: free,
\* else the worker holding it).  A worker holds the buffer from its first
\* step to its return; every read locks the channel, reads and unlocks.
SyncTask(cap, aligned) ==
    [pc |-> "lock", cap |-> cap, aligned |-> aligned, chunk_id |-> 0,
     tmp_arrs |-> <<>>, reads |-> <<>>, r |-> Ok(TRUE)]

InitSync ==
    /\ fs = fresh_image(BlockSize, 0)
    /\ status = "absent"
    /\ last = Last(Request("sort", 0, <<>>, 0, <<>>, 0), ReplyOk(Ok(TRUE)), -1, 0, <<>>)
    /\ links = [l \in {} |-> 0]
    /\ written = [i \in {} |-> NoBytes]
    /\ ops = 0
    /\ \E S \in Inputs, B \in 1..MaxBuf, workers \in 1..MaxWorkers :
          srt = [mode |-> "sync", phase |-> "new", S |-> S, B |-> B,
                 workers |-> workers, ext_arr |-> ExtArr_new(S), tasks |-> <<>>,
                 buf |-> 0, chan |-> 0, calls |-> <<>>, r |-> Ok(TRUE)]

\* parallel_sort up to the spawn of its workers: worker i gets the slice
\* [i * chunk_size, (i + 1) * chunk_size) of the buffer.
SyncSpawn ==
    /\ srt.mode = "sync" /\ srt.phase = "new"
    /\ srt' = [srt EXCEPT
                  !.phase = "chunks",
                  !.tasks = [i \in 1..srt.workers |->
                                SyncTask(srt.B \div srt.workers,
                                         ((i - 1) * (srt.B \div srt.workers))
                                             % NumberSize = 0)]]
    /\ UNCHANGED <<fs, status, last, links, written, ops>>

\* Worker i: buf.lock(), which waits while another worker holds the buffer.
SyncLockBuf(i) ==
    /\ srt.mode = "sync" /\ srt.phase = "chunks"
    /\ i \in 1..Len(srt.tasks) /\ srt.tasks[i].pc = "lock"
    /\ srt.buf = 0
    /\ srt' = [srt EXCEPT !.buf = i, !.tasks[i].pc = "read"]
    /\ UNCHANGED <<fs, status, last, links, written, ops>>

\* Worker i in sort_chunks: SyncRW::read locks the channel.
SyncLockChan(i) ==
    /\ srt.mode = "sync" /\ srt.phase = "chunks"
    /\ i \in 1..Len(srt.tasks) /\ srt.tasks[i].pc = "read"
    /\ srt.chan = 0
    /\ srt' = [srt EXCEPT !.chan = i, !.tasks[i].pc = "reading"]
    /\ UNCHANGED <<fs, status, last, links, written, ops>>

\* Worker i reads at the shared cursor and unlocks the channel; on an
\* error or an empty read it returns, which unlocks the buffer; else it
\* sorts what it read and writes it to the run of its chunk_id.
SyncRead(i) ==
    /\ srt.mode = "sync" /\ srt.phase = "chunks"
    /\ i \in 1..Len(srt.tasks) /\ srt.tasks[i].pc = "reading"
    /\ \E task \in {srt.tasks[i]} :
       \E rd \in {ExtArr_read(srt.ext_arr, task.cap, task.aligned)} :
          srt' = IF ~rd.r.ok \/ rd.r.v = <<>>
                 THEN [srt EXCEPT !.ext_arr = rd.a, !.chan = 0, !.buf = 0,
                                  !.tasks[i].pc = "done",
                                  !.tasks[i].r = IF rd.r.ok THEN Ok(TRUE) ELSE rd.r]
                 ELSE [srt EXCEPT
                          !.ext_arr = rd.a, !.chan = 0,
                          !.tasks[i].pc = "read",
                          !.tasks[i].chunk_id = @ + 1,
                          !.tasks[i].tmp_arrs =
                              Append(@, rewind(ExtArr_write(factory(task.chunk_id).v,
                                                            sort_unstable(rd.r.v)))),
                          !.tasks[i].reads =
                              Append(@, <<srt.ext_arr.pos \div NumberSize + 1,
                                          srt.ext_arr.pos \div NumberSize + Len(rd.r.v)>>),
                          !.calls = Append(@, task.chunk_id)]
    /\ UNCHANGED <<fs, status, last, links, written, ops>>

\* parallel_sort from the joins on: the first worker error, or the rewind
\* of the channel and the merge under the buffer lock.
SyncMerge ==
    /\ srt.mode = "sync" /\ srt.phase = "chunks"
    /\ \A i \in 1..Len(srt.tasks) : srt.tasks[i].pc = "done"
    /\ srt.buf = 0 /\ srt.chan = 0
    /\ \E e \in {FirstErr(srt.tasks)} :
       \E m \in {merge_chunks(srt.B, rewind(srt.ext_arr), Flatten(srt.tasks))} :
          srt' = IF e # 0 THEN Finish(srt.ext_arr, srt.tasks[e].r)
                 ELSE Finish(m.writer, m.r)
    /\ UNCHANGED <<fs, status, last, links, written, ops>>

NextSync ==
    \/ SyncSpawn
    \/ \E i \in 1..MaxWorkers : SyncLockBuf(i)
    \/ \E i \in 1..MaxWorkers : SyncLockChan(i)
    \/ \E i \in 1..MaxWorkers : SyncRead(i)
    \/ SyncMerge

SpecSync == InitSync /\ [][NextSync]_vars

\* The scheduler runs a thread that can take a step.
SpecSyncFair == SpecSync /\ WF_vars(NextSync)

\* The reads of all workers: <<worker, run, first element, last element>>.
SyncReads ==
    UNION {{<<i, k, srt.tasks[i].reads[k][1], srt.tasks[i].reads[k][2]>> :
               k \in 1..Len(srt.tasks[i].reads)} : i \in 1..Len(srt.tasks)}

\* the reads that took input element e
ReadsOf(e) == {x \in SyncReads : x[3] <= e /\ e <= x[4]}

\* every worker's share of the buffer is a positive number of whole elements
SyncWhole ==
    /\ srt.B \div srt.workers >= NumberSize
    /\ (srt.B \div srt.workers) % NumberSize = 0

\* C32: parallel_sort over a channel whose clones share one cursor behind
\* a mutex, with a share of the buffer per worker that is a positive
\* multiple of the element size.  Under every interleaving no input
\* element is ever read twice, and the call comes to its end: it returns
\* Ok, every input element was read into exactly one run by one worker,
\* every run is the sorted elements of its read, and the array holds the
\* sorted permutation of the input.
C32_SyncParallelSort ==
    /\ [](SyncWhole => \A e \in 1..Len(srt.S) : Cardinality(ReadsOf(e)) <= 1)
    /\ <>[](SyncWhole =>
              /\ srt.phase = "done" /\ srt.r.ok
              /\ srt.buf = 0 /\ srt.chan = 0
              /\ \A e \in 1..Len(srt.S) : Cardinality(ReadsOf(e)) = 1
              /\ \A x \in SyncReads :
                    srt.tasks[x[1]].tmp_arrs[x[2]].data
                        = sort_unstable(SubSeq(srt.S, x[3], x[4]))
              /\ srt.ext_arr.data = sort_unstable(srt.S))

\* C32 happens: two workers, an input out of order that takes more than
\* one read, and the call has returned.
C32_Witness ==
    /\ srt.mode = "sync" /\ srt.phase = "done" /\ srt.r.ok
    /\ SyncWhole /\ srt.workers = 2
    /\ Len(srt.S) = 3 /\ srt.S[1] > srt.S[3]
    /\ Cardinality(SyncReads) >= 2
    /\ \E i \in 1..2 : srt.tasks[i].reads = <<>> /\ srt.tasks[i].pc = "done"

\* ------------------------------------------------------------------------
\* Run generation on its own: ExtSorter::sort_chunks on an array of any
\* input with a buffer of any length; srt holds what it returned.
InitChunks ==
    /\ fs = fresh_image(BlockSize, 0)
    /\ status = "absent"
    /\ last = Last(Request("sort", 0, <<>>, 0, <<>>, 0), ReplyOk(Ok(TRUE)), -1, 0, <<>>)
    /\ links = [l \in {} |-> 0]
    /\ written = [i \in {} |-> NoBytes]
    /\ ops = 0
    /\ \E S \in Inputs, B \in 0..MaxBuf :
          srt = [mode |-> "sort_chunks", phase |-> "new", S |-> S, B |-> B,
                 ext_arr |-> ExtArr_new(S), tmp_arrs |-> <<>>, calls |-> <<>>,
                 r |-> Ok(TRUE)]

SortChunks ==
    /\ srt.mode = "sort_chunks" /\ srt.phase = "new"
    /\ \E c \in {sort_chunks(srt.B, TRUE, srt.ext_arr)} :
          srt' = [srt EXCEPT !.phase = "done", !.ext_arr = c.reader,
                             !.tmp_arrs = c.tmp_arrs, !.calls = c.calls, !.r = c.r]
    /\ UNCHANGED <<fs, status, last, links, written, ops>>

\* ExtSorter::sort rewinds the array after the run generation.
ChunksRewind ==
    /\ srt.mode = "sort_chunks" /\ srt.phase = "done" /\ srt.ext_arr.pos # 0
    /\ srt' = [srt EXCEPT !.ext_arr = rewind(@)]
    /\ UNCHANGED <<fs, status, last, links, written, ops>>

NextChunks == SortChunks \/ ChunksRewind

SpecChunks == InitChunks /\ [][NextChunks]_vars

RECURSIVE Concat(_)
Concat(arrs) == IF arrs = <<>> THEN <<>> ELSE Head(arrs).data \o Concat(Tail(arrs))

\* C33: run generation.  sort_chunks on a buffer of at least one element
\* returns runs that are each in non-decreasing order, all but possibly
\* the last of floor(B / sizeof(T)) elements and none longer, made with
\* the run numbers 0, 1, 2, ... in order, whose concatenation is a
\* permutation of the input.
C33_RunGeneration ==
    (srt.mode = "sort_chunks" /\ srt.phase = "done" /\ srt.B >= NumberSize)
        => \A n \in {Len(srt.tmp_arrs)}, full \in {srt.B \div NumberSize} :
              /\ srt.r.ok
              /\ \A k \in 1..n : Sorted(srt.tmp_arrs[k].data)
              /\ \A k \in 1..(n - 1) : Len(srt.tmp_arrs[k].data) = full
              /\ \A k \in 1..n : Len(srt.tmp_arrs[k].data) \in 1..full
              /\ srt.calls = [k \in 1..n |-> k - 1]
              /\ sort_unstable(Concat(srt.tmp_arrs)) = sort_unstable(srt.S)
              /\ Len(Concat(srt.tmp_arrs)) = Len(srt.S)

\* ------------------------------------------------------------------------
\* Lookups among creates and unlinks: with no mkdir the root is the only
\* directory, and every inode a create made is a regular file.
NextLookup ==
    \/ \E parent \in Inos \ {0}, name \in Names : Lookup(parent, name)
    \/ \E parent \in Inos \ {0}, name \in Names : Create(parent, name)
    \/ \E parent \in Inos \ {0}, name \in Names : Unlink(parent, name)

SpecLookup == InitDir /\ [][NextLookup]_vars

RECURSIVE find_dir_from(_, _, _, _)
\* find_dir from one component of the path on: current is the directory
\* read so far (or the error that ends the walk), index its inode.
find_dir_from(s, components, current, index) ==
    IF ~current.ok THEN current
    ELSE IF components = <<>> THEN Ok(<<current.v, index>>)
    ELSE \* index = current.entry(c)?; current = self.find_dir_from_inode(index)?
         CHOOSE r \in
            {IF ~e.ok THEN e
             ELSE find_dir_from(s, Tail(components), find_dir_from_inode(s, e.v), e.v) :
                e \in {entry(current.v, Head(components))}} : TRUE

\* find_dir of the path "/" followed by the components (skip(1) drops the
\* root component).
find_dir(s, components) ==
    find_dir_from(s, components, find_dir_from_inode(s, ROOT_INODE), ROOT_INODE)

\* C34: the errors of lookup.  lookup(parent, name) replies ENOTDIR when
\* parent is an allocated inode that is no directory (here: a regular file
\* a successful create made, still linked), ENOENT when parent is not
\* allocated, and ENOENT when the name is not in the directory of parent;
\* find_dir of a path whose first component is not in the root gives
\* ENOENT.
C34_LookupErrors ==
    (Running /\ last.req.op = "lookup")
        => \A parent \in {last.req.ino}, dir \in {find_dir_from_inode(fs, last.req.ino)},
              root \in {find_dir_from_inode(fs, ROOT_INODE)} :
              /\ parent \in Created => last.r = Err("ENOTDIR")
              /\ parent \notin AllocatedInodes => last.r = Err("ENOENT")
              /\ (dir.ok /\ last.req.name \notin DOMAIN dir.v) => last.r = Err("ENOENT")
              /\ \A name \in Names :
                    (root.ok /\ name \notin DOMAIN root.v)
                        => /\ find_dir(fs, <<name>>) = Err("ENOENT")
                           /\ find_dir(fs, <<name, name>>) = Err("ENOENT")

\* ------------------------------------------------------------------------
\* The namespace requests on an image of one group with few free inodes
\* left: the state after a mount and one create for every other inode,
\* each on a parent that is no directory, which leaves the inode it
\* allocated set in the bitmap and writes nothing.
SpareInodes == 1

InitNoSpace ==
    /\ fs = [create_root(fresh_image(BlockSize, ImageGroups)).s EXCEPT
                !.groups[1].inode_bitmap = 1..(8 * BlockSize - SpareInodes),
                !.groups[1].next_inode = 8 * BlockSize - SpareInodes + 1,
                !.sb.free_inodes = SpareInodes]
    /\ status = "mounted"
    /\ last = Last(Request("create", 2, <<97>>, 0, <<>>, 0), Err("EIO"), -1,
                   8 * BlockSize - SpareInodes, <<>>)
    /\ links = [l \in {} |-> 0]
    /\ written = [i \in {} |-> NoBytes]
    /\ ops = MaxDirOps
    /\ srt = NoSort

SpecNoSpace == InitNoSpace /\ [][NextDir]_vars

\* no group has a free inode
NoFreeInode(s) == \A gi \in 1..Len(s.groups) : free_inodes(s.groups[gi]) = 0

\* C35: with no inode free in any group, create and mkdir reply ENOSPC and
\* change nothing: the bitmaps and hints of the groups, the free counters
\* of the superblock, the directory of the parent and every stored inode
\* are as before the call.
C35_NoInodeNoChange ==
    [][(last'.req.op \in {"create", "mkdir"} /\ NoFreeInode(fs))
          => /\ last'.r = Err("ENOSPC")
             /\ fs'.groups = fs.groups
             /\ fs'.sb = fs.sb
             /\ fs' = fs
             /\ status' = "mounted"]_vars

\* C35 happens: a create on the root, which is a directory, is refused for
\* want of an inode, after an earlier request took the last one.
C35_Witness ==
    /\ last.req.op = "create" /\ last.req.ino = ROOT_INODE
    /\ last.r = Err("ENOSPC")
    /\ NoFreeInode(fs) /\ fs.sb.free_inodes = 0
    /\ ops < MaxDirOps - 1
    /\ find_dir_from_inode(fs, ROOT_INODE).ok

\* The directory stored for inode p: for the root, the directory in the
\* block create_root gave it (the first block of the image), read without
\* its inode; for any other inode, what find_dir_from_inode reads.
stored_dir(s, p) ==
    IF p = ROOT_INODE
    THEN MapErr(dir_deserialize_from(s, data_block_seek_position(s, 1)), "EIO")
    ELSE find_dir_from_inode(s, p)

\* C36: unlink of a missing entry.  unlink(p, n) on a directory p whose
\* stored entries do not hold n replies ENOENT and changes nothing: the
\* bitmaps, the free counters, the stored directory of p and every stored
\* inode are as before the call.
C36_UnlinkMissingEntry ==
    [][(/\ last'.req.op = "unlink" /\ last'.req.ino # 0
        /\ stored_dir(fs, last'.req.ino).ok
        /\ last'.req.name \notin DOMAIN stored_dir(fs, last'.req.ino).v)
          => /\ last'.r = Err("ENOENT")
             /\ fs' = fs
             /\ status' = "mounted"]_vars

\* ------------------------------------------------------------------------
\* The requests that only read, among creates, mkdirs, writes and unlinks.
\* statfs replies the counters of the superblock in memory.
statfs(s) ==
    [s |-> s,
     r |-> Ok([blocks |-> s.sb.block_count, bfree |-> s.sb.free_blocks,
               bavail |-> s.sb.free_blocks, files |-> s.sb.inode_count,
               ffree |-> s.sb.free_inodes, bsize |-> s.sb.block_size,
               namelen |-> 255, frsize |-> s.sb.block_size])]

\* check_access (its source is not part of the repository's src/; taken
\* from the specification, section 4.5.7): the owner bits of the mode if
\* the uid matches, else the group bits if the gid matches, else the other
\* bits, must hold every bit of the mask.
check_access(file_uid, file_gid, file_mode, uid, gid, mask) ==
    LET bits == IF uid = file_uid THEN (file_mode \div 64) % 8
                ELSE IF gid = file_gid THEN (file_mode \div 8) % 8
                ELSE file_mode % 8
    IN BitAnd(bits, mask) = mask

\* access: mode.try_into().unwrap() panics on a mode of more than 16 bits.
access(s, ino, uid, gid, mask) ==
    LET checked(attr) ==
            IF ~attr.ok THEN [s |-> s, r |-> attr]
            ELSE IF attr.v.mode >= U16 THEN [s |-> s, r |-> Err("PANIC")]
            ELSE IF check_access(attr.v.user_id, attr.v.group_id, attr.v.mode,
                                 uid, gid, mask)
            THEN [s |-> s, r |-> Ok(TRUE)]
            ELSE [s |-> s, r |-> Err("EACCES")]
    IN checked(find_inode(s, ino))

Statfs ==
    /\ Ready
    /\ \E o \in {statfs(fs)} :
          /\ fs' = o.s
          /\ status' = Outcome(o.r)
          /\ last' = Last(Request("statfs", 0, <<>>, 0, <<>>, 0),
                          [ok |-> TRUE, statfs |-> o.r.v], -1, 0, <<>>)
    /\ ops' = ops - 1
    /\ UNCHANGED srt
    /\ UNCHANGED <<links, written>>

\* The request holds the caller's uid and gid (here as data) and the mask
\* (here as size).
Access(ino, uid, gid, mask) ==
    /\ Ready
    /\ \E o \in {access(fs, ino, uid, gid, mask)} :
          /\ fs' = o.s
          /\ status' = Outcome(o.r)
          /\ last' = Last(Request("access", ino, <<>>, 0, <<uid, gid>>, mask),
                          ReplyOk(o.r), old_size(fs, ino), 0, <<>>)
    /\ ops' = ops - 1
    /\ UNCHANGED srt
    /\ UNCHANGED <<links, written>>

NextReadOnly ==
    \/ \E parent \in {1, 2}, name \in Names : Create(parent, name)
    \/ \E name \in Names : Mkdir(1, name)
    \/ \E name \in Names : Unlink(1, name)
    \/ \E ino \in {3, 4} : Write(ino, 0, <<7>>)
    \/ \E parent \in Inos, name \in Names : Lookup(parent, name)
    \/ \E ino \in Inos : Getattr(ino)
    \/ \E ino \in Inos, offset \in {0, 1} : Readdir(ino, offset)
    \/ Statfs
    \/ \E ino \in Inos, uid \in {0, 1}, mask \in {0, 1, 4, 6} : Access(ino, uid, 0, mask)

SpecReadOnly == Init /\ [][NextReadOnly]_vars

ReadOnlyOps == {"lookup", "getattr", "readdir", "statfs", "access"}

\* C37: lookup, getattr, readdir, statfs and access only read.  Whether
\* they reply success or an errno (or do not return), the bitmaps and hints
\* of every group, the counters of the superblock, the entries of every
\* directory, every stored inode record and every data block are after the
\* request what they were before it.
C37_ReadOnlyRequests ==
    [][last'.req.op \in ReadOnlyOps
          => /\ fs'.groups = fs.groups
             /\ fs'.sb = fs.sb
             /\ fs'.itab = fs.itab
             /\ fs'.dmem = fs.dmem /\ fs'.dcrc = fs.dcrc
             /\ fs' = fs]_vars

\* C37 happens: a getattr of a file that holds data replies its
\* attributes, in an image where a directory entry names the file.
C37_Witness ==
    /\ last.req.op = "getattr" /\ last.r.ok
    /\ last.req.ino \in Created
    /\ last.r.v.size > 0
    /\ fs.dmem # [a \in {} |-> 0]

\* ------------------------------------------------------------------------
\* Writes that end on the sizes 0, 1, SECTOR and SECTOR + 1.
\* The unit of block_count (adjust_size, increment_size).
SECTOR == 512

\* Requests per run of the writes below.
MaxSizeOps == 3

InitSize ==
    /\ fs = create_root(fresh_image(BlockSize, ImageGroups)).s
    /\ status = "mounted"
    /\ last = Last(Request("mount", 0, <<>>, 0, <<>>, 0), ReplyOk(Ok(TRUE)), -1, 0, <<>>)
    /\ links = [l \in {} |-> 0]
    /\ written = [i \in {} |-> NoBytes]
    /\ ops = MaxSizeOps
    /\ srt = NoSort

NextSize ==
    \/ \E name \in Names : Create(1, name)
    \/ \E ino \in {2, 3}, offset \in {0, 1, SECTOR},
          data \in {<<>>, <<7>>, [i \in 1..(SECTOR - 1) |-> 7], [i \in 1..SECTOR |-> 7]} :
          Write(ino, offset, data)

SpecSize == InitSize /\ [][NextSize]_vars

\* ceil(n / d)
CeilDiv(n, d) == (n + d - 1) \div d

\* C38: after a write that replied the bytes written, the record of the
\* inode holds block_count = ceil(size / 512) for the size it holds, also
\* for the size 0 and for the sizes that are multiples of 512.
C38_BlockCountAfterWrite ==
    (last.req.op = "write" /\ last.r.ok /\ find_inode(fs, last.req.ino).ok)
        => find_inode(fs, last.req.ino).v.block_count
               = CeilDiv(find_inode(fs, last.req.ino).v.size, SECTOR)

\* The same for the sizes that are no multiple of 512: there the code's
\* size / 512 + 1 is the ceiling.
C38_OffSectorBoundary ==
    (last.req.op = "write" /\ last.r.ok /\ find_inode(fs, last.req.ino).ok
     /\ find_inode(fs, last.req.ino).v.size % SECTOR # 0)
        => find_inode(fs, last.req.ino).v.block_count
               = CeilDiv(find_inode(fs, last.req.ino).v.size, SECTOR)

\* ------------------------------------------------------------------------
\* The geometry with the widths of the code.  block_group_size,
\* inode_table_size, data_table_size and Superblock::new compute in u32,
\* the seek positions in u64.  Numbers that can pass 2^31 are little-endian
\* digit strings (base 256); u32 arithmetic that overflows panics in a build
\* with overflow checks (debug) and wraps without them (release).
Pad(d, w) == [i \in 1..w |-> IF i <= Len(d) THEN d[i] ELSE 0]

Fits(d, w) == \A i \in (w + 1)..Len(d) : d[i] = 0

RECURSIVE nat_add(_, _, _)
\* a + b + c for the digit strings a, b and the carry c.
nat_add(a, b, c) ==
    IF a = <<>> /\ b = <<>> THEN (IF c = 0 THEN <<>> ELSE <<c>>)
    ELSE LET x == IF a = <<>> THEN 0 ELSE Head(a)
             y == IF b = <<>> THEN 0 ELSE Head(b)
         IN <<(x + y + c) % 256>>
            \o nat_add(IF a = <<>> THEN <<>> ELSE Tail(a),
                       IF b = <<>> THEN <<>> ELSE Tail(b), (x + y + c) \div 256)

RECURSIVE nat_scale(_, _, _)
\* a * d + c for the digit string a, the digit d and the carry c.
nat_scale(a, d, c) ==
    IF a = <<>> THEN (IF c = 0 THEN <<>> ELSE <<c>>)
    ELSE <<(Head(a) * d + c) % 256>>
         \o nat_scale(Tail(a), d, (Head(a) * d + c) \div 256)

RECURSIVE nat_mul(_, _)
nat_mul(a, b) ==
    IF b = <<>> THEN <<>>
    ELSE nat_add(nat_scale(a, Head(b), 0), <<0>> \o nat_mul(a, Tail(b)), 0)

nat_less(a, b) ==
    LET w == Max(Len(a), Len(b))
    IN \E i \in 1..w : /\ Pad(a, w)[i] < Pad(b, w)[i]
                       /\ \A j \in (i + 1)..w : Pad(a, w)[j] = Pad(b, w)[j]

nat_eq(a, b) == Pad(a, Max(Len(a), Len(b))) = Pad(b, Max(Len(a), Len(b)))

\* The digit string of a number below 2^31.
Digits(n) == LE(n, 4)

Builds == {"debug", "release"}

\* The u32 of an exact result.
to_u32(exact, build) ==
    IF Fits(exact, 4) \/ build = "release" THEN Ok(Pad(exact, 4))
    ELSE Err("PANIC")

mul_u32(x, y, build) ==
    IF ~x.ok THEN x ELSE IF ~y.ok THEN y ELSE to_u32(nat_mul(x.v, y.v), build)

add_u32(x, y, build) ==
    IF ~x.ok THEN x ELSE IF ~y.ok THEN y ELSE to_u32(nat_add(x.v, y.v, 0), build)

\* blk_size * 8 * INODE_SIZE as u32
inode_table_size_u32(blk_size, build) ==
    mul_u32(mul_u32(Ok(Digits(blk_size)), Ok(Digits(8)), build), Ok(Digits(INODE_SIZE)), build)

\* blk_size * blk_size * 8
data_table_size_u32(blk_size, build) ==
    mul_u32(mul_u32(Ok(Digits(blk_size)), Ok(Digits(blk_size)), build), Ok(Digits(8)), build)

\* size as u64, of the u32 sum blk_size + blk_size + inode_table_size +
\* data_table_size.  (block_group_size above is this for the block sizes
\* of the requests, where no term reaches 2^31.)
block_group_size_u32(blk_size, build) ==
    LET widened(size) == IF size.ok THEN Ok(Pad(size.v, 8)) ELSE size
    IN widened(add_u32(add_u32(add_u32(Ok(Digits(blk_size)), Ok(Digits(blk_size)), build),
                               inode_table_size_u32(blk_size, build), build),
                       data_table_size_u32(blk_size, build), build))

\* Superblock::new: total_blocks = block_size * 8 * groups and
\* data_blocks_per_group = block_size * 8, both u32.
Superblock_new_u32(block_size, groups, build) ==
    LET per_group == mul_u32(Ok(Digits(block_size)), Ok(Digits(8)), build)
        total_blocks == mul_u32(per_group, Ok(Digits(groups)), build)
    IN IF ~total_blocks.ok THEN total_blocks
       ELSE Ok([block_count |-> total_blocks.v, inode_count |-> total_blocks.v,
                free_blocks |-> total_blocks.v, free_inodes |-> total_blocks.v,
                data_blocks_per_group |-> per_group.v])

\* inode_seek_position and data_block_seek_position in u64, for a
\* superblock of the block size (8 * blk_size blocks and inodes per group).
inode_seek_position_u64(blk_size, build, index) ==
    LET o == inode_offsets([sb |-> [data_blocks_per_group |-> blk_size * 8]], index)
        position(bgs) ==
            IF ~bgs.ok THEN bgs
            ELSE Ok(Pad(nat_add(nat_add(nat_add(nat_mul(Digits(o[1]), bgs.v),
                                                nat_mul(Digits(2), Digits(blk_size)), 0),
                                        nat_mul(Digits(o[2]), Digits(INODE_SIZE)), 0),
                                Digits(SUPERBLOCK_SIZE), 0), 8))
    IN position(block_group_size_u32(blk_size, build))

data_block_seek_position_u64(blk_size, build, index) ==
    LET o == data_block_offsets([sb |-> [data_blocks_per_group |-> blk_size * 8]], index)
        position(bgs) ==
            IF ~bgs.ok THEN bgs
            ELSE Ok(Pad(nat_add(nat_add(nat_add(nat_add(
                            nat_mul(Digits(o[1]), bgs.v),
                            nat_mul(Digits(2), Digits(blk_size)), 0),
                            nat_mul(Digits(blk_size * 8), Digits(INODE_SIZE)), 0),
                            Digits(SUPERBLOCK_SIZE), 0),
                            nat_mul(Digits(blk_size), Digits(o[2])), 0), 8))
    IN position(block_group_size_u32(blk_size, build))

\* The block sizes 2^MinExp .. 2^MaxExp.
MinExp == 3

MaxExp == 16

BlockSizes == {2 ^ k : k \in MinExp..MaxExp}

\* The least number of groups for which the blocks of an image of block
\* size 128 are 2^32: make(path, 4194304 * 262400, 128).
ManyGroups == 4194304

GroupCounts == {1, 2, ManyGroups}

\* Indices that are valid in an image of at least one group, with the
\* first and last of a group and the first of the next.
Indices(blk_size, groups) ==
    {i \in {1, 2, 3, 8 * INODE_SIZE + 3, blk_size * 8, blk_size * 8 + 1,
            blk_size * 8 + 2, 2 * blk_size * 8} : i <= blk_size * 8 * Min(groups, 2)}

Geometry(op, blk_size, groups, build, index, r) ==
    [op |-> op, blk_size |-> blk_size, groups |-> groups, build |-> build,
     index |-> index, r |-> r]

InitLayout ==
    /\ \E blk_size \in BlockSizes, groups \in GroupCounts, build \in Builds :
          last = Geometry("none", blk_size, groups, build, 0, Ok(<<>>))
    /\ fs = fresh_image(BlockSize, 0)
    /\ status = "absent"
    /\ links = [l \in {} |-> 0]
    /\ written = [i \in {} |-> NoBytes]
    /\ ops = 0
    /\ srt = NoSort

LayoutCall(op, index, r) ==
    /\ last' = Geometry(op, last.blk_size, last.groups, last.build, index, r)
    /\ UNCHANGED <<fs, status, links, written, ops, srt>>

BlockGroupSize ==
    LayoutCall("block_group_size", 0, block_group_size_u32(last.blk_size, last.build))

SuperblockNew ==
    \E sb \in {Superblock_new_u32(last.blk_size, last.groups, last.build)} :
        LayoutCall("Superblock::new", 0, IF sb.ok THEN Ok(sb.v.block_count) ELSE sb)

InodeSeekPosition(index) ==
    /\ index \in Indices(last.blk_size, last.groups)
    /\ LayoutCall("inode_seek_position", index,
                  inode_seek_position_u64(last.blk_size, last.build, index))

DataBlockSeekPosition(index) ==
    /\ index \in Indices(last.blk_size, last.groups)
    /\ LayoutCall("data_block_seek_position", index,
                  data_block_seek_position_u64(last.blk_size, last.build, index))

NextLayout ==
    \/ BlockGroupSize
    \/ SuperblockNew
    \/ \E index \in Indices(last.blk_size, last.groups) : InodeSeekPosition(index)
    \/ \E index \in Indices(last.blk_size, last.groups) : DataBlockSeekPosition(index)

SpecLayout == InitLayout /\ [][NextLayout]_vars

\* 2*BS + 8*BS*128 + 8*BS*BS, exactly.
GroupSize(BS) ==
    nat_add(nat_add(nat_mul(Digits(2), Digits(BS)),
                    nat_mul(nat_mul(Digits(8), Digits(BS)), Digits(128)), 0),
            nat_mul(nat_mul(Digits(8), Digits(BS)), Digits(BS)), 0)

\* C40: for the power-of-two block sizes from 128 to 65536,
\* block_group_size(BS) returns 2*BS + 8*BS*128 + 8*BS*BS (no term of it
\* wraps around or panics in u32), and Superblock::new returns block_count
\* = 8*BS*groups for the numbers of groups make can ask for.
C40_GeometryWithoutWrap ==
    /\ (last.op = "block_group_size" /\ last.blk_size >= 128)
           => last.r.ok /\ nat_eq(last.r.v, GroupSize(last.blk_size))
    /\ (last.op = "Superblock::new" /\ last.blk_size >= 128)
           => /\ last.r.ok
              /\ nat_eq(last.r.v, nat_mul(nat_mul(Digits(8), Digits(last.blk_size)),
                                          Digits(last.groups)))

\* The largest block size whose group size is below 2^32.
LargestU32BlockSize == 16384

\* C40 within u32: for the block sizes up to 16384, and for the images of
\* one or two groups, the values are the exact ones in either build.
C40_UpTo16384 ==
    /\ (last.op = "block_group_size" /\ last.blk_size <= LargestU32BlockSize)
           => last.r.ok /\ nat_eq(last.r.v, GroupSize(last.blk_size))
    /\ (last.op = "Superblock::new" /\ last.groups <= 2)
           => /\ last.r.ok
              /\ nat_eq(last.r.v, nat_mul(nat_mul(Digits(8), Digits(last.blk_size)),
                                          Digits(last.groups)))

\* The positions as the format gives them: 1024 + g*GS + 2*BS + k*128 and
\* 1024 + g*GS + 2*BS + G*128 + k*BS, with G = 8*BS, g = (i-1) div G and
\* k = (i-1) mod G.
FormatInodePosition(BS, i) ==
    nat_add(nat_add(nat_add(Digits(1024),
                            nat_mul(Digits((i - 1) \div (8 * BS)), GroupSize(BS)), 0),
                    nat_mul(Digits(2), Digits(BS)), 0),
            nat_mul(Digits((i - 1) % (8 * BS)), Digits(128)), 0)

FormatDataPosition(BS, b) ==
    nat_add(nat_add(nat_add(nat_add(Digits(1024),
                            nat_mul(Digits((b - 1) \div (8 * BS)), GroupSize(BS)), 0),
                    nat_mul(Digits(2), Digits(BS)), 0),
                    nat_mul(Digits(8 * BS), Digits(128)), 0),
            nat_mul(Digits((b - 1) % (8 * BS)), Digits(BS)), 0)

\* The length mkfs::make gives the image: SUPERBLOCK_SIZE + bg_size * groups.
image_len(bg_size, groups) ==
    nat_add(Digits(SUPERBLOCK_SIZE), nat_mul(bg_size, Digits(groups)), 0)

\* The bytes pos .. pos + size - 1 end inside the image.
InsideImage(pos, size, bg_size, groups) ==
    ~nat_less(image_len(bg_size, groups), nat_add(pos, Digits(size), 0))

\* ... and share no byte with the two bitmaps of a group of the image,
\* which Group::serialize_into writes at block_group_size * g +
\* SUPERBLOCK_SIZE (the first three groups are looked at).
OutsideBitmaps(pos, size, blk_size, bg_size, groups) ==
    \A g \in 0..(Min(groups, 3) - 1) :
        LET start == nat_add(nat_mul(bg_size, Digits(g)), Digits(SUPERBLOCK_SIZE), 0)
        IN \/ ~nat_less(start, nat_add(pos, Digits(size), 0))
           \/ ~nat_less(pos, nat_add(start, Digits(2 * blk_size), 0))

\* Two blocks of blk_size bytes at pos and other share no byte.
Disjoint(pos, other, blk_size) ==
    \/ ~nat_less(other, nat_add(pos, Digits(blk_size), 0))
    \/ ~nat_less(pos, nat_add(other, Digits(blk_size), 0))

SlotsInLayout ==
    LET bg_size == block_group_size_u32(last.blk_size, last.build)
    IN /\ last.op = "inode_seek_position"
           => /\ last.r.ok
              /\ nat_eq(last.r.v, FormatInodePosition(last.blk_size, last.index))
              /\ bg_size.ok
              /\ InsideImage(last.r.v, INODE_SIZE, bg_size.v, last.groups)
              /\ OutsideBitmaps(last.r.v, INODE_SIZE, last.blk_size, bg_size.v, last.groups)
       /\ last.op = "data_block_seek_position"
           => /\ last.r.ok
              /\ nat_eq(last.r.v, FormatDataPosition(last.blk_size, last.index))
              /\ bg_size.ok
              /\ InsideImage(last.r.v, last.blk_size, bg_size.v, last.groups)
              /\ OutsideBitmaps(last.r.v, last.blk_size, last.blk_size, bg_size.v, last.groups)
              /\ \A other \in Indices(last.blk_size, last.groups) \ {last.index} :
                    LET at == data_block_seek_position_u64(last.blk_size, last.build, other)
                    IN at.ok /\ Disjoint(last.r.v, at.v, last.blk_size)

\* C39: for every power-of-two block size and every valid index,
\* inode_seek_position and data_block_seek_position return the positions
\* of the format; the slot of the inode and the block lie inside the
\* image, outside the bitmaps of its groups, and two distinct data blocks
\* share no byte.
C39_Layout == SlotsInLayout

\* C39 within u32: the same for the block sizes up to 16384.
C39_UpTo16384 == last.blk_size <= LargestU32BlockSize => SlotsInLayout

====
